---- MODULE Spec2Model ----
(***************************************************************************)
(* Data preprocessing and multi-dimensional visibility engine of the map   *)
(* overlay, modelled from the latest revision (src/unnamed/part_001).       *)
(*                                                                         *)
(* Conventions of the model                                                *)
(*  - A JavaScript string is a TLA+ string; StrCodes gives the UTF-16 code  *)
(*    units of every string whose characters matter (sorting, trimming,    *)
(*    upper-casing).  Point names are only ever compared for equality.      *)
(*  - A string-valued property that is absent holds Undef.                  *)
(*  - A coordinate is an integer number of HUB_EPS units (1e-6 degree); a   *)
(*    position is <<lng, lat>> and an undefined position is <<>>.           *)
(*  - A JavaScript Set is the sequence of its members in insertion order.   *)
(***************************************************************************)
EXTENDS Integers, Sequences, FiniteSets, TLC

(***************************************************************************)
(* Bounds of the model                                                     *)
(***************************************************************************)
MaxPoints == 2
MaxConns == 2
MaxRecords == 2
MaxTyped == 2

(***************************************************************************)
(* Strings                                                                 *)
(***************************************************************************)
Undef == "<undefined>"

StrCodes ==
    "" :> <<>> @@
    "N" :> <<78>> @@
    "C" :> <<67>> @@
    "HF" :> <<72, 70>> @@
    "RT" :> <<82, 84>> @@
    "TR" :> <<84, 82>> @@
    "SAT" :> <<83, 65, 84>> @@
    "HF L" :> <<72, 70, 32, 76>> @@
    "U L" :> <<85, 32, 76>> @@
    "SL" :> <<83, 76>> @@
    "N_TYPE" :> <<78, 95, 84, 89, 80, 69>> @@
    "n_type" :> <<110, 95, 116, 121, 112, 101>> @@
    " tr " :> <<32, 116, 114, 32>> @@
    "  " :> <<32, 32>> @@
    " N_Type " :> <<32, 78, 95, 84, 121, 112, 101, 32>> @@
    "N_Type" :> <<78, 95, 84, 121, 112, 101>> @@
    "tr" :> <<116, 114>> @@
    "X" :> <<88>> @@
    "x" :> <<120>> @@
    "RED_GROUP" :> <<82, 69, 68, 95, 71, 82, 79, 85, 80>> @@
    "TURQUOISE_GROUP" :> <<84, 85, 82, 81, 85, 79, 73, 83, 69, 95, 71, 82, 79, 85, 80>> @@
    "YELLOW_GROUP" :> <<89, 69, 76, 76, 79, 87, 95, 71, 82, 79, 85, 80>> @@
    "GREEN_GROUP" :> <<71, 82, 69, 69, 78, 95, 71, 82, 79, 85, 80>> @@
    "PURPLE_GROUP" :> <<80, 85, 82, 80, 76, 69, 95, 71, 82, 79, 85, 80>> @@
    "ORANGE_GROUP" :> <<79, 82, 65, 78, 71, 69, 95, 71, 82, 79, 85, 80>> @@
    "BLUE_GROUP" :> <<66, 76, 85, 69, 95, 71, 82, 79, 85, 80>> @@
    "VIOLET_GROUP" :> <<86, 73, 79, 76, 69, 84, 95, 71, 82, 79, 85, 80>> @@
    "PINK_GROUP" :> <<80, 73, 78, 75, 95, 71, 82, 79, 85, 80>> @@
    "WHITE_GROUP" :> <<87, 72, 73, 84, 69, 95, 71, 82, 79, 85, 80>> @@
    "MAGENTA_GROUP" :> <<77, 65, 71, 69, 78, 84, 65, 95, 71, 82, 79, 85, 80>> @@
    "OKC_GROUP" :> <<79, 75, 67, 95, 71, 82, 79, 85, 80>> @@
    "GREY_GROUP" :> <<71, 82, 69, 89, 95, 71, 82, 79, 85, 80>> @@
    "LOCATION" :> <<76, 79, 67, 65, 84, 73, 79, 78>> @@
    "LOGISTICS" :> <<76, 79, 71, 73, 83, 84, 73, 67, 83>> @@
    "NRP" :> <<78, 82, 80>> @@
    "SIT" :> <<83, 73, 84>> @@
    "MESSAGE" :> <<77, 69, 83, 83, 65, 71, 69>> @@
    "DEFAULT" :> <<68, 69, 70, 65, 85, 76, 84>> @@
    "location" :> <<108, 111, 99, 97, 116, 105, 111, 110>> @@
    "nrp" :> <<110, 114, 112>> @@
    "OTHER" :> <<79, 84, 72, 69, 82>>

Chars(s) == StrCodes[s]

FromChars(cs) == CHOOSE s \in DOMAIN StrCodes : StrCodes[s] = cs

\* String.prototype.toUpperCase on the code units a..z.
toUpperCase(s) ==
    FromChars([i \in 1..Len(Chars(s)) |->
        IF Chars(s)[i] >= 97 /\ Chars(s)[i] <= 122 THEN Chars(s)[i] - 32 ELSE Chars(s)[i]])

\* String.prototype.trim: leading and trailing white space removed.
IsSpace(c) == c \in {9, 10, 11, 12, 13, 32}

trim(s) ==
    LET cs == Chars(s)
        keep == {i \in 1..Len(cs) : ~IsSpace(cs[i])}
    IN  IF keep = {} THEN ""
        ELSE LET lo == CHOOSE i \in keep : \A j \in keep : i <= j
                 hi == CHOOSE i \in keep : \A j \in keep : i >= j
             IN  FromChars(SubSeq(cs, lo, hi))

\* Comparison of two strings by UTF-16 code units, as Array.prototype.sort
\* does without a comparator: a sorts before b.
LexLess(a, b) ==
    IF Len(a) = 0 \/ Len(b) = 0 THEN Len(a) < Len(b)
    ELSE IF a[1] # b[1] THEN a[1] < b[1]
    ELSE LET n == IF Len(a) < Len(b) THEN Len(a) ELSE Len(b)
             differ == {i \in 1..n : a[i] # b[i]}
         IN  IF differ = {} THEN Len(a) < Len(b)
             ELSE LET first == CHOOSE i \in differ : \A j \in differ : i <= j
                  IN  a[first] < b[first]

\* x put into the sorted array after the elements that do not sort after it.
SortInsert(sorted, x) ==
    LET k == Cardinality({i \in 1..Len(sorted) : ~LexLess(x, sorted[i])})
    IN  SubSeq(sorted, 1, k) \o <<x>> \o SubSeq(sorted, k + 1, Len(sorted))

\* Array.prototype.sort() on an array of code-unit sequences (stable).
RECURSIVE SortCodes(_)
SortCodes(s) ==
    IF Len(s) = 0 THEN <<>>
    ELSE SortInsert(SortCodes(SubSeq(s, 1, Len(s) - 1)), s[Len(s)])

\* The same sort on an array of strings.
StringInsert(sorted, x) ==
    LET k == Cardinality({i \in 1..Len(sorted) : ~LexLess(Chars(x), Chars(sorted[i]))})
    IN  SubSeq(sorted, 1, k) \o <<x>> \o SubSeq(sorted, k + 1, Len(sorted))

RECURSIVE SortStrings(_)
SortStrings(s) ==
    IF Len(s) = 0 THEN <<>>
    ELSE StringInsert(SortStrings(SubSeq(s, 1, Len(s) - 1)), s[Len(s)])

\* Array.prototype.join on an array of code-unit sequences.
RECURSIVE JoinCodes(_, _)
JoinCodes(s, sep) ==
    IF Len(s) = 0 THEN <<>>
    ELSE IF Len(s) = 1 THEN s[1]
    ELSE s[1] \o sep \o JoinCodes(Tail(s), sep)

\* Array.prototype.join on an array of strings.
RECURSIVE JoinStrings(_, _)
JoinStrings(s, sep) ==
    IF Len(s) = 0 THEN ""
    ELSE IF Len(s) = 1 THEN s[1]
    ELSE s[1] \o sep \o JoinStrings(Tail(s), sep)

(***************************************************************************)
(* Numbers: a coordinate is counted in units of HUB_EPS                     *)
(***************************************************************************)
UnitsPerDegree == 1000000

RECURSIVE Digits(_)
Digits(n) == IF n < 10 THEN <<48 + n>> ELSE Digits(n \div 10) \o <<48 + (n % 10)>>

\* The fraction f / 10^w in decimal digits, without trailing zeros (f > 0).
RECURSIVE FracDigits(_, _)
FracDigits(f, w) ==
    IF f % 10 = 0 THEN FracDigits(f \div 10, w - 1)
    ELSE [i \in 1..(w - Len(Digits(f))) |-> 48] \o Digits(f)

\* Number-to-string conversion of a coordinate, as Array.prototype.join
\* applies it: "-82.492696", "27.8602", "-90".
NumToStr(n) ==
    LET a == IF n < 0 THEN 0 - n ELSE n
        ip == a \div UnitsPerDegree
        fp == a % UnitsPerDegree
    IN  (IF n < 0 THEN <<45>> ELSE <<>>) \o Digits(ip) \o
        (IF fp = 0 THEN <<>> ELSE <<46>> \o FracDigits(fp, 6))

\* coordinates.join(',')
PosStr(pos) == JoinCodes([i \in 1..Len(pos) |-> NumToStr(pos[i])], <<44>>)

(***************************************************************************)
(* Shapes of the two source record collections                             *)
(***************************************************************************)
\* The IER property: absent, an array of strings, or a value that is no array.
NoIER == [present |-> FALSE, isArray |-> FALSE, items |-> <<>>]
IERArray(items) == [present |-> TRUE, isArray |-> TRUE, items |-> items]
IERScalar(s) == [present |-> TRUE, isArray |-> FALSE, items |-> <<s>>]

NoConnProps ==
    [Connection_type |-> Undef, connection_type |-> Undef,
     from |-> Undef, to |-> Undef, IER |-> NoIER]

\* A connection record with its fields on the record itself.
RawConn(from, to, type, ier) ==
    [direct |-> [Connection_type |-> type, connection_type |-> Undef,
                 from |-> from, to |-> to, IER |-> ier],
     properties |-> NoConnProps]

\* A connection record with its fields in the nested properties object, the
\* type under the lower-case spelling.
NestedConn(from, to, type, ier) ==
    [direct |-> NoConnProps,
     properties |-> [Connection_type |-> Undef, connection_type |-> type,
                     from |-> from, to |-> to, IER |-> ier]]

NoGeometry == [present |-> FALSE, type |-> Undef, coordinates |-> <<>>]
Geometry(type, coords) == [present |-> TRUE, type |-> type, coordinates |-> coords]

\* A GeoJSON feature: the name lives in properties.
Feature(name, geometry) ==
    [exists |-> TRUE, direct |-> [name |-> Undef],
     properties |-> [name |-> name], geometry |-> geometry]

\* The value of pointMap.get for a name that is not indexed.
NoPoint ==
    [exists |-> FALSE, direct |-> [name |-> Undef],
     properties |-> [name |-> Undef], geometry |-> NoGeometry]

(***************************************************************************)
(* Property accessor and classifier                                        *)
(***************************************************************************)
IsNullish(key, v) == IF key = "IER" THEN ~v.present ELSE v = Undef

\* d?.[key] ?? d?.properties?.[key]
getProp(d, key) ==
    IF ~IsNullish(key, d.direct[key]) THEN d.direct[key] ELSE d.properties[key]

Coalesce(a, b) == IF a # Undef THEN a ELSE b

\* Faulty variant of the classification: the legacy spelling is not remapped.
getConnTypeVerbatim(d) ==
    LET t == Coalesce(getProp(d, "Connection_type"), getProp(d, "connection_type"))
    IN  toUpperCase(trim(Coalesce(t, "")))

getConnType(d) ==
    LET t == Coalesce(getProp(d, "Connection_type"), getProp(d, "connection_type"))
        up == toUpperCase(trim(Coalesce(t, "")))
    IN  IF up = "N_TYPE" THEN "N" ELSE up

getIERArray(d) ==
    LET ierValue == getProp(d, "IER")
    IN  IF ierValue.present /\ ierValue.isArray
        THEN [i \in 1..Len(ierValue.items) |-> toUpperCase(ierValue.items[i])]
        ELSE <<>>

getPointName(d) == Coalesce(getProp(d, "name"), "")

ALL_POINT_TYPES ==
    <<"RED_GROUP", "TURQUOISE_GROUP", "YELLOW_GROUP", "GREEN_GROUP",
      "PURPLE_GROUP", "ORANGE_GROUP", "BLUE_GROUP", "VIOLET_GROUP",
      "PINK_GROUP", "WHITE_GROUP", "MAGENTA_GROUP", "OKC_GROUP", "GREY_GROUP">>

PIN_COLOR_MAP ==
    [RED_GROUP |-> <<200, 0, 0, 220>>,
     TURQUOISE_GROUP |-> <<64, 224, 208, 220>>,
     YELLOW_GROUP |-> <<255, 255, 0, 220>>,
     GREEN_GROUP |-> <<0, 128, 0, 220>>,
     PURPLE_GROUP |-> <<128, 0, 128, 220>>,
     ORANGE_GROUP |-> <<255, 165, 0, 220>>,
     BLUE_GROUP |-> <<0, 120, 255, 220>>,
     VIOLET_GROUP |-> <<130, 42, 245, 220>>,
     PINK_GROUP |-> <<255, 105, 180, 220>>,
     WHITE_GROUP |-> <<197, 110, 255, 255>>,
     MAGENTA_GROUP |-> <<255, 0, 255, 255>>,
     GREY_GROUP |-> <<169, 169, 169, 220>>,
     OKC_GROUP |-> <<0, 255, 255, 220>>]

PIN_LOOKUP_MAP ==
    "sb" :> "VIOLET_GROUP" @@ "Ship" :> "VIOLET_GROUP" @@
    "Point 13" :> "YELLOW_GROUP" @@ "E6-1" :> "YELLOW_GROUP" @@
    "E6-2" :> "YELLOW_GROUP" @@ "Point 6" :> "YELLOW_GROUP" @@
    "E6-3" :> "YELLOW_GROUP" @@ "E6-4" :> "YELLOW_GROUP" @@
    "E6-5" :> "YELLOW_GROUP" @@ "E6-6" :> "YELLOW_GROUP" @@
    "E6-7" :> "YELLOW_GROUP" @@ "E6-8" :> "YELLOW_GROUP" @@
    "Support Team" :> "PURPLE_GROUP" @@ "B" :> "PURPLE_GROUP" @@
    "Bale HFCGS" :> "GREEN_GROUP" @@ "M" :> "GREEN_GROUP" @@ "NE" :> "GREEN_GROUP" @@
    "FOB1" :> "RED_GROUP" @@ "FOB2" :> "RED_GROUP" @@
    "PENT" :> "TURQUOISE_GROUP" @@ "COS" :> "TURQUOISE_GROUP" @@
    "TB" :> "TURQUOISE_GROUP" @@ "RR" :> "TURQUOISE_GROUP" @@
    "AZ" :> "TURQUOISE_GROUP" @@ "IP" :> "TURQUOISE_GROUP" @@
    "SAN" :> "PINK_GROUP" @@ "SBL" :> "PINK_GROUP" @@ "LUL" :> "PINK_GROUP" @@
    "Site A" :> "ORANGE_GROUP" @@ "Site B" :> "ORANGE_GROUP" @@ "Site C" :> "ORANGE_GROUP" @@
    "Cutler" :> "WHITE_GROUP" @@ "Grindavik" :> "WHITE_GROUP" @@
    "Awase" :> "WHITE_GROUP" @@ "Harold E. Holt" :> "WHITE_GROUP" @@
    "Aguada" :> "WHITE_GROUP" @@ "Wahiawa" :> "WHITE_GROUP" @@
    "Naples" :> "WHITE_GROUP" @@ "Dixon" :> "WHITE_GROUP" @@
    "Jim Creek" :> "WHITE_GROUP" @@ "La Moure" :> "WHITE_GROUP" @@
    "Norfolk" :> "WHITE_GROUP" @@ "Yokosuka" :> "WHITE_GROUP" @@
    "H_AK" :> "MAGENTA_GROUP" @@ "Beale HFCGS" :> "MAGENTA_GROUP" @@ "E" :> "MAGENTA_GROUP" @@
    "LRT1" :> "GREY_GROUP" @@ "LRT2" :> "GREY_GROUP" @@ "LRT3" :> "GREY_GROUP" @@
    "MOB" :> "OKC_GROUP"

getPinType(d) ==
    LET name == getPointName(d)
    IN  IF name \in DOMAIN PIN_LOOKUP_MAP THEN PIN_LOOKUP_MAP[name] ELSE "BLUE_GROUP"

colorPinkByType(d) == PIN_COLOR_MAP[getPinType(d)]

\* The icon descriptor of a marker: a plain circle for one colour, a pie of
\* equal slices, clockwise from 12 o'clock, for several.
createPieIcon(colors) ==
    IF Len(colors) = 0 THEN [shape |-> "none", colors |-> <<>>]
    ELSE IF Len(colors) = 1 THEN [shape |-> "circle", colors |-> colors]
    ELSE [shape |-> "pie", colors |-> colors]

ALL_TYPES == <<"N", "C", "HF", "RT", "TR", "SAT", "HF L", "U L", "SL">>

(***************************************************************************)
(* Proximity oracle                                                        *)
(***************************************************************************)
HUB_LNG == -82492696
HUB_LAT == 27860200
HUB_EPS == 1
HUB2_LNG == 9077841
HUB2_LAT == 48734481

Abs(x) == IF x < 0 THEN 0 - x ELSE x

near(a, b) == Abs(a - b) <= HUB_EPS

\* s and t are the source and target positions handed over in _sourcePos and
\* _targetPos; <<>> is no array.
connectsToHub(s, t) ==
    IF Len(s) = 0 \/ Len(t) = 0 THEN FALSE
    ELSE (near(s[1], HUB_LNG) /\ near(s[2], HUB_LAT)) \/
         (near(t[1], HUB_LNG) /\ near(t[2], HUB_LAT))

connectsToHub2(s, t) ==
    IF Len(s) = 0 \/ Len(t) = 0 THEN FALSE
    ELSE (near(s[1], HUB2_LNG) /\ near(s[2], HUB2_LAT)) \/
         (near(t[1], HUB2_LNG) /\ near(t[2], HUB2_LAT))

(***************************************************************************)
(* The fetched JSON documents: a flat array, or a FeatureCollection wrapper *)
(***************************************************************************)
FlatList(list) ==
    [isArray |-> TRUE, type |-> Undef, features |-> <<>>, elements |-> list]

FeatureCollection(list) ==
    [isArray |-> FALSE, type |-> "FeatureCollection", features |-> list, elements |-> <<>>]

NotFetched == [isArray |-> FALSE, type |-> "pending", features |-> <<>>, elements |-> <<>>]

(***************************************************************************)
(* Point index                                                             *)
(***************************************************************************)
EmptyMap == [x \in {} |-> NoPoint]

MapSet(m, k, v) == [x \in DOMAIN m \cup {k} |-> IF x = k THEN v ELSE m[x]]

\* Map.prototype.get: NoPoint stands for undefined.
MapGet(m, k) == IF k \in DOMAIN m THEN m[k] ELSE NoPoint

allPointsOf(json) ==
    IF json.type = "FeatureCollection" THEN json.features ELSE json.elements

\* Faulty variant of the index: the first point of a name is kept.
RECURSIVE indexFirstWins(_, _)
indexFirstWins(points, m) ==
    IF Len(points) = 0 THEN m
    ELSE LET name == getPointName(Head(points))
         IN  indexFirstWins(Tail(points),
                            IF name # "" /\ name \notin DOMAIN m
                            THEN MapSet(m, name, Head(points)) ELSE m)

RECURSIVE indexPoints(_, _)
indexPoints(points, m) ==
    IF Len(points) = 0 THEN m
    ELSE LET name == getPointName(Head(points))
         IN  indexPoints(Tail(points),
                         IF name # "" THEN MapSet(m, name, Head(points)) ELSE m)

HUB2Feature == Feature("HUB2", Geometry("Point", <<HUB2_LNG, HUB2_LAT>>))

buildPointMap(allPoints) == MapSet(indexPoints(allPoints, EmptyMap), "HUB2", HUB2Feature)

(***************************************************************************)
(* Connection resolver                                                     *)
(***************************************************************************)
\* toPoint?.geometry.type reads a property of undefined when the target is
\* indexed but carries no geometry.
trFilterThrows(c, pointMap) ==
    /\ getConnType(c) = "TR"
    /\ LET toPoint == MapGet(pointMap, getProp(c, "to"))
       IN  toPoint.exists /\ ~toPoint.geometry.present

\* Faulty variant of the inclusion rule: a target exactly on 90 degrees west
\* passes.
trFilterInclusive(c, pointMap) ==
    LET connType == getConnType(c)
        fromName == getProp(c, "from")
        toPoint == MapGet(pointMap, getProp(c, "to"))
        hasLng == toPoint.exists /\ toPoint.geometry.type = "Point"
        toLng == toPoint.geometry.coordinates[1]
    IN  IF connType = "TR"
        THEN IF ~hasLng THEN TRUE
             ELSE IF fromName = "Ohio Pin" THEN toLng >= 0 - 90 * UnitsPerDegree
             ELSE IF fromName = "FOB1" THEN toLng =< 0 - 90 * UnitsPerDegree
             ELSE TRUE
        ELSE TRUE

\* The first filter of the resolution: the inclusion rule of category TR.
trFilter(c, pointMap) ==
    LET connType == getConnType(c)
        fromName == getProp(c, "from")
        toPoint == MapGet(pointMap, getProp(c, "to"))
        hasLng == toPoint.exists /\ toPoint.geometry.type = "Point"
        toLng == toPoint.geometry.coordinates[1]
    IN  IF connType = "TR"
        THEN IF ~hasLng THEN TRUE
             ELSE IF fromName = "Ohio Pin" THEN toLng > 0 - 90 * UnitsPerDegree
             ELSE IF fromName = "FOB1" THEN toLng < 0 - 90 * UnitsPerDegree
             ELSE TRUE
        ELSE TRUE

\* point?.geometry?.type === 'Point' ? coordinates : undefined
pointPos(point) ==
    IF point.exists /\ point.geometry.present /\ point.geometry.type = "Point"
    THEN point.geometry.coordinates ELSE <<>>

\* The map step of the resolution.  The hub flags are computed from the raw
\* coordinates; the nested arrays of a geometry that is no Point never
\* compare near a hub.
resolveConnection(c, pointMap) ==
    LET fromPoint == MapGet(pointMap, getProp(c, "from"))
        toPoint == MapGet(pointMap, getProp(c, "to"))
    IN  [raw |-> c,
         from |-> fromPoint,
         to |-> toPoint,
         _sourcePos |-> pointPos(fromPoint),
         _targetPos |-> pointPos(toPoint),
         _connType |-> getConnType(c),
         _ierTypes |-> getIERArray(c),
         _sourcePinType |-> IF fromPoint.exists THEN getPinType(fromPoint) ELSE "BLUE_GROUP",
         _targetPinType |-> IF toPoint.exists THEN getPinType(toPoint) ELSE "BLUE_GROUP",
         _isHub1 |-> connectsToHub(pointPos(fromPoint), pointPos(toPoint)),
         _isHub2 |-> connectsToHub2(pointPos(fromPoint), pointPos(toPoint))]

\* Faulty variant of the last filter: the target position is not looked at.
hasSourcePosition(c) == Len(c._sourcePos) > 0

\* The last filter of the resolution.
hasBothPositions(c) == Len(c._sourcePos) > 0 /\ Len(c._targetPos) > 0

\* Faulty variant of the resolution: the output is in reverse order.
resolveReversed(rawConnections, pointMap) ==
    LET kept == SelectSeq(rawConnections, LAMBDA c : trFilter(c, pointMap))
        mapped == [i \in 1..Len(kept) |-> resolveConnection(kept[i], pointMap)]
        out == SelectSeq(mapped, hasBothPositions)
    IN  [i \in 1..Len(out) |-> out[Len(out) + 1 - i]]

resolve(rawConnections, pointMap) ==
    LET kept == SelectSeq(rawConnections, LAMBDA c : trFilter(c, pointMap))
        mapped == [i \in 1..Len(kept) |-> resolveConnection(kept[i], pointMap)]
    IN  SelectSeq(mapped, hasBothPositions)

resolveThrows(json, pointMap) ==
    \/ ~json.isArray
    \/ \E i \in 1..Len(json.elements) : trFilterThrows(json.elements[i], pointMap)

(***************************************************************************)
(* Co-location grouper                                                     *)
(***************************************************************************)
NoOffset == [defined |-> FALSE, radius |-> 0, angleNum |-> 0, angleDen |-> 1]

\* p._pinType = getPinType(p)
withPinType(p) == [_pinType |-> getPinType(p), _labelOffset |-> NoOffset] @@ p

RECURSIVE pinsByLocation(_, _)
pinsByLocation(pins, groups) ==
    IF Len(pins) = 0 THEN groups
    ELSE LET p == Head(pins)
             coords == PosStr(p.geometry.coordinates)
             at == {i \in 1..Len(groups) : groups[i].coords = coords}
         IN  pinsByLocation(Tail(pins),
                 IF at = {} THEN Append(groups, [coords |-> coords, pins |-> <<p>>])
                 ELSE [groups EXCEPT ![CHOOSE i \in at : TRUE].pins = Append(@, p)])

groupingThrows(pins) == \E i \in 1..Len(pins) : ~pins[i].geometry.present

offsetRadius == 45

\* Faulty variant of the label offset: the angle of the start of the slice
\* instead of its middle.
labelOffsetAtSliceStart(i, numSlices) ==
    [defined |-> TRUE, radius |-> offsetRadius,
     angleNum |-> (0 - 90) * numSlices + i * 360, angleDen |-> numSlices]

\* Member i (from 0) of a group of numSlices members: the label offset in
\* polar form, at midAngle = -90 + i * sliceAngle + sliceAngle / 2 degrees
\* with sliceAngle = 360 / numSlices, kept as the exact fraction
\* angleNum / angleDen.
labelOffset(i, numSlices) ==
    [defined |-> TRUE, radius |-> offsetRadius,
     angleNum |-> (0 - 90) * numSlices + i * 360 + 180, angleDen |-> numSlices]

\* One entry of overlappingPins; the members carry the label offsets that the
\* later pass attaches to them, the copy of the first pin does not.
overlappingPin(pins) ==
    [firstPin |-> pins[1],
     count |-> Len(pins),
     pinTypes |-> [i \in 1..Len(pins) |-> pins[i]._pinType],
     originalPins |-> [i \in 1..Len(pins) |->
         IF Len(pins) > 1
         THEN [pins[i] EXCEPT !._labelOffset = labelOffset(i - 1, Len(pins))]
         ELSE pins[i]],
     iconUrl |-> createPieIcon([i \in 1..Len(pins) |-> colorPinkByType(pins[i])])]

groupByLocation(pins) ==
    LET groups == pinsByLocation(pins, <<>>)
    IN  [i \in 1..Len(groups) |-> overlappingPin(groups[i].pins)]

RECURSIVE flatMapOriginalPins(_)
flatMapOriginalPins(groups) ==
    IF Len(groups) = 0 THEN <<>>
    ELSE Head(groups).originalPins \o flatMapOriginalPins(Tail(groups))

(***************************************************************************)
(* Connection aggregator                                                   *)
(***************************************************************************)
Range(s) == {s[i] : i \in 1..Len(s)}

\* Set.prototype.add / delete / has on a Set kept in insertion order.
SetAdd(s, x) == IF x \in Range(s) THEN s ELSE Append(s, x)
SetDelete(s, x) == SelectSeq(s, LAMBDA y : y # x)
SetHas(s, x) == x \in Range(s)

RECURSIVE SetAddAll(_, _)
SetAddAll(s, xs) == IF Len(xs) = 0 THEN s ELSE SetAddAll(SetAdd(s, Head(xs)), Tail(xs))

\* Faulty variant of the key: the two position strings are joined unsorted.
directedKey(conn) ==
    JoinCodes(<<PosStr(conn._sourcePos), PosStr(conn._targetPos)>>, <<124>>)

\* [pos1Str, pos2Str].sort().join('|')
aggregateKey(conn) ==
    JoinCodes(SortCodes(<<PosStr(conn._sourcePos), PosStr(conn._targetPos)>>), <<124>>)

newAggregate(conn) ==
    [from |-> conn.from,
     to |-> conn.to,
     _sourcePos |-> conn._sourcePos,
     _targetPos |-> conn._targetPos,
     _connTypes |-> <<>>,
     _ierTypes |-> <<>>,
     _count |-> 0,
     _sourcePinType |-> conn._sourcePinType,
     _targetPinType |-> conn._targetPinType,
     _isHub1 |-> FALSE,
     _isHub2 |-> FALSE]

\* Faulty variant of the accumulation: the count is set, not incremented.
accumulateOnce(agg, conn) ==
    [agg EXCEPT !._connTypes = SetAdd(@, conn._connType),
                !._ierTypes = SetAddAll(@, conn._ierTypes),
                !._count = 1,
                !._isHub1 = @ \/ conn._isHub1,
                !._isHub2 = @ \/ conn._isHub2]

\* Faulty variant of the accumulation: the tags of the last member replace
\* those collected so far.
accumulateLastTags(agg, conn) ==
    [agg EXCEPT !._connTypes = SetAdd(@, conn._connType),
                !._ierTypes = conn._ierTypes,
                !._count = @ + 1,
                !._isHub1 = @ \/ conn._isHub1,
                !._isHub2 = @ \/ conn._isHub2]

accumulate(agg, conn) ==
    [agg EXCEPT !._connTypes = SetAdd(@, conn._connType),
                !._ierTypes = SetAddAll(@, conn._ierTypes),
                !._count = @ + 1,
                !._isHub1 = @ \/ conn._isHub1,
                !._isHub2 = @ \/ conn._isHub2]

\* aggregatedConnectionsMap as the sequence of its entries in insertion order.
RECURSIVE aggregatedConnectionsMap(_, _)
aggregatedConnectionsMap(conns, entries) ==
    IF Len(conns) = 0 THEN entries
    ELSE LET conn == Head(conns)
             key == aggregateKey(conn)
             at == {i \in 1..Len(entries) : entries[i].key = key}
             withKey == IF at = {}
                        THEN Append(entries, [key |-> key, value |-> newAggregate(conn)])
                        ELSE entries
             j == CHOOSE i \in 1..Len(withKey) : withKey[i].key = key
         IN  aggregatedConnectionsMap(Tail(conns),
                 [withKey EXCEPT ![j].value = accumulate(@, conn)])

aggregate(conns) ==
    LET entries == aggregatedConnectionsMap(conns, <<>>)
    IN  [i \in 1..Len(entries) |-> entries[i].value]

(***************************************************************************)
(* Program state                                                           *)
(***************************************************************************)
VARIABLES
    pc,                        \* position of initMap: "loading", "preprocessed", "ready", "failed"
    demo,                      \* position of runDemonstration: "idle", "step2", "step3"
    connectionsJson,           \* response of the connections fetch
    pointsJson,                \* response of the points fetch
    processedConnections,
    processedPins,
    overlappingPins,
    aggregatedConnections,
    activePointTypes,
    activeTypes,
    activeIerTypes,
    showConnectionLabels,
    showPinLabels,
    hideHubConnections,
    hideHub2Connections,
    showAggregatedConnections,
    checked,                   \* the checked property of the filter checkboxes
    layers                     \* the layers last handed to the overlay

dataVars == <<connectionsJson, pointsJson>>
processedVars == <<processedConnections, processedPins, overlappingPins, aggregatedConnections>>
setVars == <<activePointTypes, activeTypes, activeIerTypes>>
flagVars == <<showConnectionLabels, showPinLabels, hideHubConnections,
              hideHub2Connections, showAggregatedConnections>>
vars == <<pc, demo, dataVars, processedVars, setVars, flagVars, checked, layers>>

(***************************************************************************)
(* Visibility engine                                                       *)
(***************************************************************************)
\* The filter state, as one value.
FilterState ==
    [activeTypes |-> activeTypes,
     hideHubConnections |-> hideHubConnections,
     hideHub2Connections |-> hideHub2Connections,
     activePointTypes |-> activePointTypes,
     activeIerTypes |-> activeIerTypes,
     showAggregatedConnections |-> showAggregatedConnections,
     showConnectionLabels |-> showConnectionLabels,
     showPinLabels |-> showPinLabels]

Bit(b) == IF b THEN "1" ELSE "0"

\* Faulty variant of the serialisation of a set: the members are not sorted.
unsortedJoin(set) == JoinStrings(set, ",")

\* Array.from(set).sort().join(",")
sortedJoin(set) ==
    JoinStrings(SortStrings(set), ",")

\* Faulty variant of the key: the two hub flags are left out.
keyWithoutHubs(fs) ==
    JoinStrings(<<sortedJoin(fs.activeTypes),
                  sortedJoin(fs.activePointTypes),
                  sortedJoin(fs.activeIerTypes),
                  "aggregated:" \o Bit(fs.showAggregatedConnections)>>, "|")
        \o "|connLabels:" \o Bit(fs.showConnectionLabels)
        \o "|pinLabels:" \o Bit(fs.showPinLabels)

\* filterKey(), reading the filter state fs.
filterKey(fs) ==
    JoinStrings(<<sortedJoin(fs.activeTypes),
                  "hub1:" \o Bit(fs.hideHubConnections),
                  "hub2:" \o Bit(fs.hideHub2Connections),
                  sortedJoin(fs.activePointTypes),
                  sortedJoin(fs.activeIerTypes),
                  "aggregated:" \o Bit(fs.showAggregatedConnections)>>, "|")
        \o "|connLabels:" \o Bit(fs.showConnectionLabels)
        \o "|pinLabels:" \o Bit(fs.showPinLabels)

\* Faulty variants of the connection accessor: the group of the target is not
\* looked at; the category is not looked at; every active tag is required.
filterValueBySource(d, fs) ==
    LET ierVisible == Len(fs.activeIerTypes) = 0 \/
                      (\E ierType \in Range(d._ierTypes) : SetHas(fs.activeIerTypes, ierType))
    IN  IF /\ SetHas(fs.activeTypes, d._connType)
           /\ (~fs.hideHubConnections \/ ~d._isHub1)
           /\ (~fs.hideHub2Connections \/ ~d._isHub2)
           /\ SetHas(fs.activePointTypes, d._sourcePinType) /\ ierVisible
        THEN 1 ELSE 0

filterValueAnyCategory(d, fs) ==
    LET ierVisible == Len(fs.activeIerTypes) = 0 \/
                      (\E ierType \in Range(d._ierTypes) : SetHas(fs.activeIerTypes, ierType))
    IN  IF /\ (~fs.hideHubConnections \/ ~d._isHub1)
           /\ (~fs.hideHub2Connections \/ ~d._isHub2)
           /\ SetHas(fs.activePointTypes, d._sourcePinType)
           /\ SetHas(fs.activePointTypes, d._targetPinType) /\ ierVisible
        THEN 1 ELSE 0

filterValueEveryTag(d, fs) ==
    LET ierVisible == \A ierType \in Range(fs.activeIerTypes) : ierType \in Range(d._ierTypes)
    IN  IF /\ SetHas(fs.activeTypes, d._connType)
           /\ (~fs.hideHubConnections \/ ~d._isHub1)
           /\ (~fs.hideHub2Connections \/ ~d._isHub2)
           /\ SetHas(fs.activePointTypes, d._sourcePinType)
           /\ SetHas(fs.activePointTypes, d._targetPinType) /\ ierVisible
        THEN 1 ELSE 0

\* The accessors below are closures over the module's filter variables; fs is
\* the filter state they read when the layers are built.
getConnectionFilterValue(d, fs) ==
    LET sourcePinTypeVisible == SetHas(fs.activePointTypes, d._sourcePinType)
        targetPinTypeVisible == SetHas(fs.activePointTypes, d._targetPinType)
        ierVisible == Len(fs.activeIerTypes) = 0 \/
                      (\E ierType \in Range(d._ierTypes) : SetHas(fs.activeIerTypes, ierType))
    IN  IF /\ SetHas(fs.activeTypes, d._connType)
           /\ (~fs.hideHubConnections \/ ~d._isHub1)
           /\ (~fs.hideHub2Connections \/ ~d._isHub2)
           /\ sourcePinTypeVisible /\ targetPinTypeVisible /\ ierVisible
        THEN 1 ELSE 0

\* Faulty variant of the aggregate accessor: every category of the aggregate
\* has to be active.
aggregatedEveryType(d, fs) ==
    LET ierVisible == Len(fs.activeIerTypes) = 0 \/
                      (\E ierType \in Range(d._ierTypes) : SetHas(fs.activeIerTypes, ierType))
    IN  IF /\ \A type \in Range(d._connTypes) : SetHas(fs.activeTypes, type)
           /\ (~fs.hideHubConnections \/ ~d._isHub1)
           /\ (~fs.hideHub2Connections \/ ~d._isHub2)
           /\ SetHas(fs.activePointTypes, d._sourcePinType)
           /\ SetHas(fs.activePointTypes, d._targetPinType) /\ ierVisible
        THEN 1 ELSE 0

\* Faulty variant of the aggregate accessor: the tags are not looked at.
aggregatedIgnoresTags(d, fs) ==
    IF /\ \E type \in Range(d._connTypes) : SetHas(fs.activeTypes, type)
       /\ (~fs.hideHubConnections \/ ~d._isHub1)
       /\ (~fs.hideHub2Connections \/ ~d._isHub2)
       /\ SetHas(fs.activePointTypes, d._sourcePinType)
       /\ SetHas(fs.activePointTypes, d._targetPinType)
    THEN 1 ELSE 0

\* getFilterValue of the layer "aggregated-connections".
aggregatedFilterValue(d, fs) ==
    LET anyConnTypeActive == \E type \in Range(d._connTypes) : SetHas(fs.activeTypes, type)
        sourcePinTypeVisible == SetHas(fs.activePointTypes, d._sourcePinType)
        targetPinTypeVisible == SetHas(fs.activePointTypes, d._targetPinType)
        ierVisible == Len(fs.activeIerTypes) = 0 \/
                      (\E ierType \in Range(d._ierTypes) : SetHas(fs.activeIerTypes, ierType))
    IN  IF /\ anyConnTypeActive
           /\ (~fs.hideHubConnections \/ ~d._isHub1)
           /\ (~fs.hideHub2Connections \/ ~d._isHub2)
           /\ sourcePinTypeVisible /\ targetPinTypeVisible /\ ierVisible
        THEN 1 ELSE 0

\* getFilterValue of the layer "aggregated-connection-labels".
aggregatedTextFilterValue(d, fs) ==
    LET anyConnTypeActive == \E type \in Range(d._connTypes) : SetHas(fs.activeTypes, type)
        sourcePinTypeVisible == SetHas(fs.activePointTypes, d._sourcePinType)
        targetPinTypeVisible == SetHas(fs.activePointTypes, d._targetPinType)
        ierVisible == Len(fs.activeIerTypes) = 0 \/
                      (\E ierType \in Range(d._ierTypes) : SetHas(fs.activeIerTypes, ierType))
    IN  IF /\ anyConnTypeActive
           /\ (~fs.hideHubConnections \/ ~d._isHub1)
           /\ (~fs.hideHub2Connections \/ ~d._isHub2)
           /\ sourcePinTypeVisible /\ targetPinTypeVisible /\ ierVisible
        THEN 1 ELSE 0

\* Faulty variant of the marker accessor: every member's group has to be active.
pinsEveryType(d, fs) ==
    IF \A type \in Range(d.pinTypes) : SetHas(fs.activePointTypes, type) THEN 1 ELSE 0

\* getFilterValue of the layer "pins", whose data are the co-located groups.
pinsFilterValue(d, fs) ==
    IF \E type \in Range(d.pinTypes) : SetHas(fs.activePointTypes, type) THEN 1 ELSE 0

\* getFilterValue of the layer "pin-labels", whose data are the points.
pinTextFilterValue(d, fs) == IF SetHas(fs.activePointTypes, d._pinType) THEN 1 ELSE 0

\* A layer as the overlay receives it: its data, the value of its
\* getFilterValue accessor on every datum, and its update trigger.
Layer(id, data, filterValue, key) ==
    [id |-> id, data |-> data, filterValue |-> filterValue, updateTrigger |-> key]

\* Faulty variant of buildLayers: the per-edge arcs are supplied in the
\* aggregated view as well.
buildLayersBothViews(connectionsData, pinsData, groups, aggregates, fs) ==
    LET key == filterKey(fs)
        connections == connectionsData
        aggregated == IF fs.showAggregatedConnections THEN aggregates ELSE <<>>
        connectionLabels == IF fs.showConnectionLabels /\ ~fs.showAggregatedConnections
                            THEN connectionsData ELSE <<>>
        aggregatedLabels == IF fs.showConnectionLabels /\ fs.showAggregatedConnections
                            THEN aggregates ELSE <<>>
        pinLabels == IF fs.showPinLabels THEN pinsData ELSE <<>>
    IN  [connectionsLayer |->
            Layer("flights", connections,
                  [i \in 1..Len(connections) |->
                      getConnectionFilterValue(connections[i], fs)], key),
         aggregatedConnectionsLayer |->
            Layer("aggregated-connections", aggregated,
                  [i \in 1..Len(aggregated) |->
                      aggregatedFilterValue(aggregated[i], fs)], key),
         individualConnectionTextLayer |->
            Layer("connection-labels", connectionLabels,
                  [i \in 1..Len(connectionLabels) |->
                      getConnectionFilterValue(connectionLabels[i], fs)], key),
         aggregatedConnectionTextLayer |->
            Layer("aggregated-connection-labels", aggregatedLabels,
                  [i \in 1..Len(aggregatedLabels) |->
                      aggregatedTextFilterValue(aggregatedLabels[i], fs)], key),
         pinsLayer |->
            Layer("pins", groups,
                  [i \in 1..Len(groups) |-> pinsFilterValue(groups[i], fs)], key),
         pinTextLayer |->
            Layer("pin-labels", pinLabels,
                  [i \in 1..Len(pinLabels) |-> pinTextFilterValue(pinLabels[i], fs)], key)]

\* buildLayers(connectionsData, pinsData) with the globals it reads: the
\* co-located groups, the aggregates and the filter state fs.
buildLayers(connectionsData, pinsData, groups, aggregates, fs) ==
    LET key == filterKey(fs)
        connections == IF fs.showAggregatedConnections THEN <<>> ELSE connectionsData
        aggregated == IF fs.showAggregatedConnections THEN aggregates ELSE <<>>
        connectionLabels == IF fs.showConnectionLabels /\ ~fs.showAggregatedConnections
                            THEN connectionsData ELSE <<>>
        aggregatedLabels == IF fs.showConnectionLabels /\ fs.showAggregatedConnections
                            THEN aggregates ELSE <<>>
        pinLabels == IF fs.showPinLabels THEN pinsData ELSE <<>>
    IN  [connectionsLayer |->
            Layer("flights", connections,
                  [i \in 1..Len(connections) |->
                      getConnectionFilterValue(connections[i], fs)], key),
         aggregatedConnectionsLayer |->
            Layer("aggregated-connections", aggregated,
                  [i \in 1..Len(aggregated) |->
                      aggregatedFilterValue(aggregated[i], fs)], key),
         individualConnectionTextLayer |->
            Layer("connection-labels", connectionLabels,
                  [i \in 1..Len(connectionLabels) |->
                      getConnectionFilterValue(connectionLabels[i], fs)], key),
         aggregatedConnectionTextLayer |->
            Layer("aggregated-connection-labels", aggregatedLabels,
                  [i \in 1..Len(aggregatedLabels) |->
                      aggregatedTextFilterValue(aggregatedLabels[i], fs)], key),
         pinsLayer |->
            Layer("pins", groups,
                  [i \in 1..Len(groups) |-> pinsFilterValue(groups[i], fs)], key),
         pinTextLayer |->
            Layer("pin-labels", pinLabels,
                  [i \in 1..Len(pinLabels) |-> pinTextFilterValue(pinLabels[i], fs)], key)]

\* No overlay exists yet.
NoLayers ==
    [connectionsLayer |-> Layer("none", <<>>, <<>>, ""),
     aggregatedConnectionsLayer |-> Layer("none", <<>>, <<>>, ""),
     individualConnectionTextLayer |-> Layer("none", <<>>, <<>>, ""),
     aggregatedConnectionTextLayer |-> Layer("none", <<>>, <<>>, ""),
     pinsLayer |-> Layer("none", <<>>, <<>>, ""),
     pinTextLayer |-> Layer("none", <<>>, <<>>, "")]

\* Faulty variant of the refresh: the layers are built before the handler's
\* assignments take effect.
layerUpdateBeforeAssignments ==
    layers' = buildLayers(processedConnections', processedPins', overlappingPins',
                          aggregatedConnections', FilterState)

\* overlay.setProps({ layers: buildLayers(processedConnections, processedPins) }),
\* run after the handler's assignments.
layerUpdateCallback ==
    layers' = buildLayers(processedConnections', processedPins', overlappingPins',
                          aggregatedConnections', FilterState')

(***************************************************************************)
(* Initial state: the module has been evaluated, initMap awaits the data   *)
(***************************************************************************)
NoneChecked == [conn |-> {}, pin |-> {}, ier |-> {}, hub1 |-> FALSE, hub2 |-> FALSE, agg |-> FALSE]

Init ==
    /\ pc = "loading"
    /\ demo = "idle"
    /\ connectionsJson = NotFetched
    /\ pointsJson = NotFetched
    /\ processedConnections = <<>>
    /\ processedPins = <<>>
    /\ overlappingPins = <<>>
    /\ aggregatedConnections = <<>>
    /\ activePointTypes = <<>>
    /\ activeTypes = <<>>
    /\ activeIerTypes = <<>>
    /\ showConnectionLabels = FALSE
    /\ showPinLabels = FALSE
    /\ hideHubConnections = FALSE
    /\ hideHub2Connections = FALSE
    /\ showAggregatedConnections = FALSE
    /\ checked = NoneChecked
    /\ layers = NoLayers

(***************************************************************************)
(* Loading: the two fetches and preprocessData                             *)
(***************************************************************************)
\* The connections fetch resolves with one of the documents docs.
FetchConnections(docs) ==
    /\ pc = "loading"
    /\ connectionsJson = NotFetched
    /\ \E doc \in docs : connectionsJson' = doc
    /\ UNCHANGED <<pc, demo, pointsJson, processedVars, setVars, flagVars, checked, layers>>

\* The points fetch resolves with one of the documents docs.
FetchPoints(docs) ==
    /\ pc = "loading"
    /\ pointsJson = NotFetched
    /\ \E doc \in docs : pointsJson' = doc
    /\ UNCHANGED <<pc, demo, connectionsJson, processedVars, setVars, flagVars, checked, layers>>

\* Faulty variant of the wait: only the connections are waited for.
connectionsArrived == connectionsJson # NotFetched

\* Promise.all has resolved: both responses are there.
responsesArrived == connectionsJson # NotFetched /\ pointsJson # NotFetched

\* The body of preprocessData after Promise.all has resolved.  A TypeError
\* leaves the globals assigned so far and rejects initMap.
Preprocess ==
    /\ pc = "loading"
    /\ responsesArrived
    /\ LET allPoints == allPointsOf(pointsJson)
           pointMap == buildPointMap(allPoints)
           pins == [i \in 1..Len(allPoints) |-> withPinType(allPoints[i])]
       IN  IF resolveThrows(connectionsJson, pointMap)
           THEN /\ pc' = "failed"
                /\ UNCHANGED processedVars
           ELSE IF groupingThrows(pins)
           THEN /\ pc' = "failed"
                /\ processedConnections' = resolve(connectionsJson.elements, pointMap)
                /\ processedPins' = pins
                /\ UNCHANGED <<overlappingPins, aggregatedConnections>>
           ELSE /\ pc' = "preprocessed"
                /\ processedConnections' = resolve(connectionsJson.elements, pointMap)
                /\ overlappingPins' = groupByLocation(pins)
                /\ aggregatedConnections' = aggregate(processedConnections')
                /\ processedPins' = flatMapOriginalPins(overlappingPins')
    /\ UNCHANGED <<demo, dataVars, setVars, flagVars, checked, layers>>

\* Faulty variant of initMap: the session starts with the sets of an earlier
\* revision, every group and the category HF active.
FinishInitAllEnabled ==
    /\ pc = "preprocessed"
    /\ pc' = "ready"
    /\ checked' = [conn |-> Range(activeTypes),
                   pin |-> Range(activePointTypes),
                   ier |-> Range(activeIerTypes),
                   hub1 |-> hideHubConnections,
                   hub2 |-> hideHub2Connections,
                   agg |-> showAggregatedConnections]
    /\ activeTypes' = <<"HF">>
    /\ activePointTypes' = ALL_POINT_TYPES
    /\ activeIerTypes' = <<>>
    /\ UNCHANGED <<demo, dataVars, processedVars, flagVars>>
    /\ layers' = buildLayers(processedConnections', processedPins', overlappingPins',
                             aggregatedConnections', FilterState')

\* initMap after "await preprocessData()": the controls are built from the
\* current filter state and their listeners registered, the three active sets
\* are replaced by empty ones, and the overlay is created with the first
\* layers.
FinishInit ==
    /\ pc = "preprocessed"
    /\ pc' = "ready"
    /\ checked' = [conn |-> Range(activeTypes),
                   pin |-> Range(activePointTypes),
                   ier |-> Range(activeIerTypes),
                   hub1 |-> hideHubConnections,
                   hub2 |-> hideHub2Connections,
                   agg |-> showAggregatedConnections]
    /\ activeTypes' = <<>>
    /\ activePointTypes' = <<>>
    /\ activeIerTypes' = <<>>
    /\ UNCHANGED <<demo, dataVars, processedVars, flagVars>>
    /\ layerUpdateCallback

(***************************************************************************)
(* Filter controls                                                         *)
(***************************************************************************)
connItems == <<"N", "C", "RT", "HF", "TR", "SAT", "HF L", "U L", "SL">>

pinItems ==
    <<"PINK_GROUP", "VIOLET_GROUP", "RED_GROUP", "TURQUOISE_GROUP", "YELLOW_GROUP",
      "GREEN_GROUP", "PURPLE_GROUP", "ORANGE_GROUP", "BLUE_GROUP", "WHITE_GROUP",
      "OKC_GROUP", "MAGENTA_GROUP", "GREY_GROUP">>

ierItems == <<"LOCATION", "LOGISTICS", "NRP", "SIT", "MESSAGE", "DEFAULT">>

Toggle(set, k) == IF k \in set THEN set \ {k} ELSE set \cup {k}

\* Faulty variant of "All / None" of the connection types: it empties every
\* set that is not empty.
AllConnEmptiesNonEmpty ==
    /\ pc = "ready"
    /\ LET isAllActive == Len(activeTypes) > 0
       IN  /\ activeTypes' = IF isAllActive THEN <<>> ELSE SetAddAll(<<>>, connItems)
           /\ checked' = [checked EXCEPT !.conn = IF isAllActive THEN {} ELSE Range(connItems)]
    /\ UNCHANGED <<pc, demo, dataVars, processedVars, activePointTypes, activeIerTypes, flagVars>>

\* Click on "All / None" of the connection types.
AllConnAssignments ==
    /\ pc = "ready"
    /\ LET isAllActive == Len(activeTypes) = Len(connItems)
       IN  /\ activeTypes' = IF isAllActive THEN <<>> ELSE SetAddAll(<<>>, connItems)
           /\ checked' = [checked EXCEPT !.conn = IF isAllActive THEN {} ELSE Range(connItems)]
    /\ UNCHANGED <<pc, demo, dataVars, processedVars, activePointTypes, activeIerTypes, flagVars>>

\* The whole handler: its assignments, then updateMap().
AllConnClick == AllConnAssignments /\ layerUpdateCallback

\* Faulty variant of the handler of "Hide FL": the flag of hub 2 follows the
\* checkbox as well.
Hub1ChangeBothHubs ==
    /\ pc = "ready"
    /\ checked' = [checked EXCEPT !.hub1 = ~@]
    /\ hideHubConnections' = checked'.hub1
    /\ hideHub2Connections' = checked'.hub1
    /\ UNCHANGED <<pc, demo, dataVars, processedVars, setVars, showConnectionLabels,
                   showPinLabels, showAggregatedConnections>>
    /\ layerUpdateCallback

\* The operator flips the checkbox "Hide FL".
Hub1Assignments ==
    /\ pc = "ready"
    /\ checked' = [checked EXCEPT !.hub1 = ~@]
    /\ hideHubConnections' = checked'.hub1
    /\ UNCHANGED <<pc, demo, dataVars, processedVars, setVars, showConnectionLabels,
                   showPinLabels, hideHub2Connections, showAggregatedConnections>>

\* The whole handler: its assignments, then updateMap().
Hub1Change == Hub1Assignments /\ layerUpdateCallback

\* The operator flips the checkbox "Hide EU".
Hub2Assignments ==
    /\ pc = "ready"
    /\ checked' = [checked EXCEPT !.hub2 = ~@]
    /\ hideHub2Connections' = checked'.hub2
    /\ UNCHANGED <<pc, demo, dataVars, processedVars, setVars, showConnectionLabels,
                   showPinLabels, hideHubConnections, showAggregatedConnections>>

\* The whole handler: its assignments, then updateMap().
Hub2Change == Hub2Assignments /\ layerUpdateCallback

\* The operator flips the checkbox of connection type key.
ConnCbAssignments(key) ==
    /\ pc = "ready"
    /\ checked' = [checked EXCEPT !.conn = Toggle(@, key)]
    /\ activeTypes' = IF key \in checked'.conn
                      THEN SetAdd(activeTypes, key) ELSE SetDelete(activeTypes, key)
    /\ UNCHANGED <<pc, demo, dataVars, processedVars, activePointTypes, activeIerTypes, flagVars>>

\* The whole handler: its assignments, then updateMap().
ConnCbChange(key) == ConnCbAssignments(key) /\ layerUpdateCallback

\* Click on "Show Details" / "Hide Details".
ConnLabelAssignments ==
    /\ pc = "ready"
    /\ showConnectionLabels' = ~showConnectionLabels
    /\ UNCHANGED <<pc, demo, dataVars, processedVars, setVars, showPinLabels, hideHubConnections,
                   hideHub2Connections, showAggregatedConnections, checked>>

\* The whole handler: its assignments, then updateMap().
ConnLabelClick == ConnLabelAssignments /\ layerUpdateCallback

\* Click on "All / None" of the pin groups.
AllPinsAssignments ==
    /\ pc = "ready"
    /\ LET isAllActive == Len(activePointTypes) = Len(ALL_POINT_TYPES)
       IN  /\ activePointTypes' = IF isAllActive THEN <<>> ELSE SetAddAll(<<>>, ALL_POINT_TYPES)
           /\ checked' = [checked EXCEPT !.pin = IF isAllActive THEN {} ELSE Range(pinItems)]
    /\ UNCHANGED <<pc, demo, dataVars, processedVars, activeTypes, activeIerTypes, flagVars>>

\* The whole handler: its assignments, then updateMap().
AllPinsClick == AllPinsAssignments /\ layerUpdateCallback

\* Click on "All / None" of the IER types.
AllIerAssignments ==
    /\ pc = "ready"
    /\ LET isAllActive == Len(activeIerTypes) = Len(ierItems)
       IN  /\ activeIerTypes' = IF isAllActive THEN <<>> ELSE SetAddAll(<<>>, ierItems)
           /\ checked' = [checked EXCEPT !.ier = IF isAllActive THEN {} ELSE Range(ierItems)]
    /\ UNCHANGED <<pc, demo, dataVars, processedVars, activeTypes, activePointTypes, flagVars>>

\* The whole handler: its assignments, then updateMap().
AllIerClick == AllIerAssignments /\ layerUpdateCallback

\* The operator flips the checkbox of IER type key.
IerCbAssignments(key) ==
    /\ pc = "ready"
    /\ checked' = [checked EXCEPT !.ier = Toggle(@, key)]
    /\ activeIerTypes' = IF key \in checked'.ier
                         THEN SetAdd(activeIerTypes, key) ELSE SetDelete(activeIerTypes, key)
    /\ UNCHANGED <<pc, demo, dataVars, processedVars, activeTypes, activePointTypes, flagVars>>

\* The whole handler: its assignments, then updateMap().
IerCbChange(key) == IerCbAssignments(key) /\ layerUpdateCallback

\* The operator flips the checkbox "Aggregate Connections".
AggregatedAssignments ==
    /\ pc = "ready"
    /\ checked' = [checked EXCEPT !.agg = ~@]
    /\ showAggregatedConnections' = checked'.agg
    /\ UNCHANGED <<pc, demo, dataVars, processedVars, setVars, showConnectionLabels,
                   showPinLabels, hideHubConnections, hideHub2Connections>>

\* The whole handler: its assignments, then updateMap().
AggregatedChange == AggregatedAssignments /\ layerUpdateCallback

\* Click on "Show Labels" / "Hide Labels".
PinLabelAssignments ==
    /\ pc = "ready"
    /\ showPinLabels' = ~showPinLabels
    /\ UNCHANGED <<pc, demo, dataVars, processedVars, setVars, showConnectionLabels,
                   hideHubConnections, hideHub2Connections, showAggregatedConnections,
                   checked>>

\* The whole handler: its assignments, then updateMap().
PinLabelClick == PinLabelAssignments /\ layerUpdateCallback

\* The operator flips the checkbox of pin group key.
PinCbAssignments(key) ==
    /\ pc = "ready"
    /\ checked' = [checked EXCEPT !.pin = Toggle(@, key)]
    /\ activePointTypes' = IF key \in checked'.pin
                           THEN SetAdd(activePointTypes, key)
                           ELSE SetDelete(activePointTypes, key)
    /\ UNCHANGED <<pc, demo, dataVars, processedVars, activeTypes, activeIerTypes, flagVars>>

\* The whole handler: its assignments, then updateMap().
PinCbChange(key) == PinCbAssignments(key) /\ layerUpdateCallback

\* Faulty variant of updateCheckboxes: the group checkboxes are left alone.
updateCategoryCheckboxes(boxes, types, points) ==
    [boxes EXCEPT !.conn = {key \in Range(connItems) : SetHas(types, key)}]

(***************************************************************************)
(* The demonstration                                                       *)
(***************************************************************************)
\* updateCheckboxes(): the category and the group checkboxes are set from the
\* active sets types and points; the other checkboxes are left alone.
updateCheckboxes(boxes, types, points) ==
    [boxes EXCEPT !.conn = {key \in Range(connItems) : SetHas(types, key)},
                  !.pin = {key \in Range(pinItems) : SetHas(points, key)}]

\* Faulty variant of the click on the demonstration button: the button is
\* never disabled.
DemoClickWhileRunning ==
    /\ pc = "ready"
    /\ demo' = "step2"
    /\ activeTypes' = <<>>
    /\ activePointTypes' = SetAdd(<<>>, "OKC_GROUP")
    /\ checked' = updateCheckboxes(checked, activeTypes', activePointTypes')
    /\ UNCHANGED <<pc, dataVars, processedVars, activeIerTypes, flagVars>>
    /\ layerUpdateCallback

\* Click on the demonstration button, which is disabled while a demonstration
\* runs: runDemonstration up to its first delay.
DemoClick ==
    /\ pc = "ready"
    /\ demo = "idle"
    /\ demo' = "step2"
    /\ activeTypes' = <<>>
    /\ activePointTypes' = SetAdd(<<>>, "OKC_GROUP")
    /\ checked' = updateCheckboxes(checked, activeTypes', activePointTypes')
    /\ UNCHANGED <<pc, dataVars, processedVars, activeIerTypes, flagVars>>
    /\ layerUpdateCallback

\* Faulty variant of the second step: it sets the two active sets instead of
\* adding to them.
DemoStep2Overwrites ==
    /\ demo = "step2"
    /\ demo' = "step3"
    /\ activePointTypes' = <<"OKC_GROUP", "RED_GROUP">>
    /\ activeTypes' = <<"RT">>
    /\ checked' = updateCheckboxes(checked, activeTypes', activePointTypes')
    /\ UNCHANGED <<pc, dataVars, processedVars, activeIerTypes, flagVars>>

\* The first delay has elapsed: the assignments of runDemonstration up to its second delay,
\* with updateCheckboxes().
DemoStep2Assignments ==
    /\ demo = "step2"
    /\ demo' = "step3"
    /\ activePointTypes' = SetAdd(activePointTypes, "RED_GROUP")
    /\ activeTypes' = SetAdd(activeTypes, "RT")
    /\ checked' = updateCheckboxes(checked, activeTypes', activePointTypes')
    /\ UNCHANGED <<pc, dataVars, processedVars, activeIerTypes, flagVars>>

\* The whole step: its assignments, then layerUpdateCallback().
DemoStep2 == DemoStep2Assignments /\ layerUpdateCallback

\* Faulty variant of the third step: it reveals a category that no control
\* offers.
DemoStep3Unoffered ==
    /\ demo = "step3"
    /\ demo' = "idle"
    /\ activePointTypes' = SetAdd(activePointTypes, "BLUE_GROUP")
    /\ activeTypes' = SetAdd(activeTypes, "X")
    /\ checked' = updateCheckboxes(checked, activeTypes', activePointTypes')
    /\ UNCHANGED <<pc, dataVars, processedVars, activeIerTypes, flagVars>>
    /\ layerUpdateCallback

\* The second delay has elapsed: the assignments of runDemonstration to its end,
\* with updateCheckboxes().
DemoStep3Assignments ==
    /\ demo = "step3"
    /\ demo' = "idle"
    /\ activePointTypes' = SetAdd(activePointTypes, "BLUE_GROUP")
    /\ activeTypes' = SetAdd(activeTypes, "TR")
    /\ checked' = updateCheckboxes(checked, activeTypes', activePointTypes')
    /\ UNCHANGED <<pc, dataVars, processedVars, activeIerTypes, flagVars>>

\* The whole step: its assignments, then layerUpdateCallback().
DemoStep3 == DemoStep3Assignments /\ layerUpdateCallback

\* newButton.disabled: set when runDemonstration starts, cleared at its end.
newButtonDisabled == demo # "idle"

(***************************************************************************)
(* Input documents                                                         *)
(***************************************************************************)
WEST == <<-97516400, 35467600>>
EAST == <<-82998800, 39961200>>
RIVER == <<-90000000, 35000000>>
HUB1 == <<HUB_LNG, HUB_LAT>>

SeqsUpTo(S, n) == UNION {[1..k -> S] : k \in 0..n}

\* Records for the resolution and the aggregation.
PointChoices ==
    {Feature("FOB1", Geometry("Point", WEST)),
     Feature("Ohio Pin", Geometry("Point", EAST)),
     Feature("MOB", Geometry("Point", RIVER)),
     Feature("MOB", Geometry("LineString", <<-97516400, 35467600, -82998800, 39961200>>)),
     Feature("sb", Geometry("Point", HUB1)),
     Feature("FOB1", NoGeometry)}

ConnChoices ==
    {RawConn("FOB1", "Ohio Pin", "TR", NoIER),
     RawConn("Ohio Pin", "FOB1", "TR", NoIER),
     RawConn("Ohio Pin", "sb", " tr ", IERArray(<<"nrp">>)),
     RawConn("FOB1", "MOB", "TR", NoIER),
     RawConn("FOB1", "FOB1", "TR", NoIER),
     RawConn("FOB1", "Ohio Pin", "N", IERArray(<<"location">>)),
     NestedConn("Ohio Pin", "FOB1", "n_type", IERScalar("NRP")),
     RawConn("sb", "HUB2", "X", NoIER)}

DataPointDocs == {FlatList(points) : points \in SeqsUpTo(PointChoices, MaxPoints)}
DataConnDocs == {FlatList(conns) : conns \in SeqsUpTo(ConnChoices, MaxConns)}

\* Documents for the filter controls: two co-located points of different
\* groups, a pair of opposite connections, connections touching both hubs, a
\* category that no control offers, a tag field that is no array and an
\* endpoint that is not indexed.
FilterPointDocs ==
    {FlatList(<<Feature("FOB1", Geometry("Point", WEST)),
                Feature("MOB", Geometry("Point", WEST)),
                Feature("sb", Geometry("Point", HUB1))>>)}

FilterConnDocs ==
    {FlatList(<<RawConn("FOB1", "MOB", "N_TYPE", IERArray(<<"location">>)),
                RawConn("MOB", "FOB1", "TR", IERArray(<<"NRP">>)),
                RawConn("sb", "HUB2", "C", NoIER)>>),
     FlatList(<<RawConn("sb", "FOB1", "N", IERScalar("NRP")),
                RawConn("FOB1", "MOB", "X", NoIER),
                RawConn("Ghost", "MOB", "TR", NoIER)>>)}

\* The document of the demonstration: connections of the categories the
\* demonstration reveals, between the groups it reveals, a connection of a
\* category that no control offers and one without a type.
DemoConnDocs ==
    {FlatList(<<RawConn("MOB", "FOB1", "RT", NoIER),
                RawConn("MOB", "sb", "TR", IERArray(<<"NRP">>)),
                RawConn("FOB1", "Ghost2", "TR", NoIER),
                RawConn("MOB", "FOB1", "X", NoIER),
                RawConn("FOB1", "MOB", Undef, NoIER)>>)}

\* Records for the two shapes of a document and for the point index: two
\* points of one name at different places, a point without a name, a point
\* that carries the name of the synthetic hub, and connections that refer to
\* them, in both directions and with overlapping tag lists.
ShapePointChoices ==
    {Feature("FOB1", Geometry("Point", WEST)),
     Feature("FOB1", Geometry("Point", EAST)),
     Feature(Undef, Geometry("Point", RIVER)),
     Feature("HUB2", Geometry("Point", WEST))}

ShapeConnChoices ==
    {RawConn("FOB1", "HUB2", "N", IERArray(<<"location", "nrp">>)),
     RawConn("HUB2", "FOB1", "C", IERArray(<<"NRP", "x">>)),
     RawConn("FOB1", "FOB1", "TR", NoIER)}

\* Every bounded list of records, as a flat list and as a feature collection.
ShapePointDocs ==
    {FlatList(points) : points \in SeqsUpTo(ShapePointChoices, MaxRecords)}
        \cup {FeatureCollection(points) : points \in SeqsUpTo(ShapePointChoices, MaxRecords)}

ShapeConnDocs ==
    {FlatList(conns) : conns \in SeqsUpTo(ShapeConnChoices, MaxRecords)}
        \cup {FeatureCollection(conns) : conns \in SeqsUpTo(ShapeConnChoices, MaxRecords)}

\* A connection from "MOB" to "FOB1" with the type under any of the four
\* places getConnType looks at.
TypedConn(directUpper, directLower, nestedUpper, nestedLower) ==
    [direct |-> [Connection_type |-> directUpper, connection_type |-> directLower,
                 from |-> "MOB", to |-> "FOB1", IER |-> NoIER],
     properties |-> [Connection_type |-> nestedUpper, connection_type |-> nestedLower,
                     from |-> Undef, to |-> Undef, IER |-> NoIER]]

\* Records for the classification: each place alone, two places that
\* disagree, no type, an empty and a blank type, the legacy spelling in
\* three letter cases and with white space around it.
TypedChoices ==
    {TypedConn("N_TYPE", Undef, Undef, Undef),
     TypedConn(Undef, "n_type", Undef, Undef),
     TypedConn(Undef, Undef, " tr ", Undef),
     TypedConn(Undef, Undef, Undef, "x"),
     TypedConn("C", Undef, "HF", Undef),
     TypedConn(Undef, "RT", "SAT", Undef),
     TypedConn(Undef, Undef, Undef, Undef),
     TypedConn("  ", Undef, Undef, Undef),
     TypedConn(" N_Type ", Undef, Undef, Undef),
     TypedConn("", Undef, "TR", Undef)}

TypedConnDocs == {FlatList(conns) : conns \in SeqsUpTo(TypedChoices, MaxTyped)}

\* Documents for the comparison of the two views, all over the points of
\* FilterPointDocs: two connections of one pair in opposite directions with
\* different categories and different tags; two connections that leave two
\* co-located points of different groups for the same target; two parallel
\* connections of which one carries no tag.
ViewConnDocs ==
    {FlatList(<<RawConn("FOB1", "sb", "N", IERArray(<<"location">>)),
                RawConn("sb", "FOB1", "C", IERArray(<<"nrp">>))>>),
     FlatList(<<RawConn("FOB1", "sb", "N", NoIER),
                RawConn("MOB", "sb", "N", NoIER)>>),
     FlatList(<<RawConn("FOB1", "sb", "N", IERArray(<<"nrp">>)),
                RawConn("FOB1", "sb", "C", NoIER)>>)}

\* The checkboxes the operator uses when comparing the views.
ViewConnKeys == {"N", "C"}
ViewPinKeys == {"RED_GROUP", "OKC_GROUP", "VIOLET_GROUP"}

\* The checkboxes the operator uses.
ConnKeys == {"N"}
PinKeys == {"RED_GROUP"}
IerKeys == {"NRP"}

(***************************************************************************)
(* Specifications                                                          *)
(***************************************************************************)
\* Loading and preprocessing of every bounded pair of documents.
NextData ==
    \/ FetchConnections(DataConnDocs)
    \/ FetchPoints(DataPointDocs)
    \/ Preprocess
    \/ FinishInit

SpecData == Init /\ [][NextData]_vars

\* A session: loading, then the operator at the filter controls.
NextFilter ==
    \/ FetchConnections(FilterConnDocs)
    \/ FetchPoints(FilterPointDocs)
    \/ Preprocess
    \/ FinishInit
    \/ AllConnClick
    \/ Hub1Change
    \/ Hub2Change
    \/ \E key \in ConnKeys : ConnCbChange(key)
    \/ ConnLabelClick
    \/ AllPinsClick
    \/ AllIerClick
    \/ \E key \in IerKeys : IerCbChange(key)
    \/ AggregatedChange
    \/ PinLabelClick
    \/ \E key \in PinKeys : PinCbChange(key)

SpecFilter == Init /\ [][NextFilter]_vars

\* A session in which the demonstration runs while the operator is at the
\* filter controls.
NextDemo ==
    \/ FetchConnections(DemoConnDocs)
    \/ FetchPoints(FilterPointDocs)
    \/ Preprocess
    \/ FinishInit
    \/ DemoClick
    \/ DemoStep2
    \/ DemoStep3
    \/ AllConnClick
    \/ Hub1Change
    \/ Hub2Change
    \/ \E key \in ConnKeys : ConnCbChange(key)
    \/ ConnLabelClick
    \/ AllPinsClick
    \/ AllIerClick
    \/ \E key \in IerKeys : IerCbChange(key)
    \/ AggregatedChange
    \/ PinLabelClick
    \/ \E key \in PinKeys : PinCbChange(key)

SpecDemo == Init /\ [][NextDemo]_vars

\* A session with the timers of the demonstration: a delay that has been
\* started elapses, and the continuation of runDemonstration then runs,
\* whatever the operator does at the controls in the meantime.
NextTimers ==
    \/ FetchConnections(DemoConnDocs)
    \/ FetchPoints(FilterPointDocs)
    \/ Preprocess
    \/ FinishInit
    \/ DemoClick
    \/ DemoStep2
    \/ DemoStep3
    \/ AllConnClick
    \/ Hub1Change
    \/ \E key \in ConnKeys : ConnCbChange(key)
    \/ \E key \in IerKeys : IerCbChange(key)
    \/ \E key \in PinKeys : PinCbChange(key)

SpecTimers ==
    /\ Init
    /\ [][NextTimers]_vars
    /\ WF_demo(DemoStep2Assignments)
    /\ WF_demo(DemoStep3Assignments)

\* Loading and preprocessing of documents of both shapes.
NextShapes ==
    \/ FetchConnections(ShapeConnDocs)
    \/ FetchPoints(ShapePointDocs)
    \/ Preprocess
    \/ FinishInit

SpecShapes == Init /\ [][NextShapes]_vars

\* Loading and preprocessing of connections of every bounded list of type
\* fields.
NextTyped ==
    \/ FetchConnections(TypedConnDocs)
    \/ FetchPoints(FilterPointDocs)
    \/ Preprocess
    \/ FinishInit

SpecTyped == Init /\ [][NextTyped]_vars

\* A session in which the operator picks categories, groups, a tag, the
\* suppression of hub 1 and the view.
NextViews ==
    \/ FetchConnections(ViewConnDocs)
    \/ FetchPoints(FilterPointDocs)
    \/ Preprocess
    \/ FinishInit
    \/ \E key \in ViewConnKeys : ConnCbChange(key)
    \/ \E key \in ViewPinKeys : PinCbChange(key)
    \/ \E key \in IerKeys : IerCbChange(key)
    \/ Hub1Change
    \/ AggregatedChange

SpecViews == Init /\ [][NextViews]_vars

(***************************************************************************)
(* Properties of the resolution and the aggregation                        *)
(***************************************************************************)
\* preprocessData has run to its end.
Resolved == pc \in {"preprocessed", "ready"}

\* The point index preprocessData builds from the fetched points.
LoadedPointMap == buildPointMap(allPointsOf(pointsJson))

\* The name resolves to an indexed point that has a position.
HasPosition(pointMap, name) ==
    /\ name \in DOMAIN pointMap
    /\ pointMap[name].geometry.present
    /\ pointMap[name].geometry.type = "Point"

\* The inclusion rule of the raw connection c: a TR connection with a located
\* target stays east of 90 degrees west when it leaves "Ohio Pin" and west of
\* it when it leaves "FOB1"; every other connection passes.
InclusionRulePasses(c, pointMap) ==
    LET to == getProp(c, "to")
    IN  (getConnType(c) = "TR" /\ HasPosition(pointMap, to)) =>
            /\ getProp(c, "from") = "Ohio Pin" =>
                   pointMap[to].geometry.coordinates[1] > 0 - 90 * UnitsPerDegree
            /\ getProp(c, "from") = "FOB1" =>
                   pointMap[to].geometry.coordinates[1] < 0 - 90 * UnitsPerDegree

ShouldResolve(c, pointMap) ==
    /\ InclusionRulePasses(c, pointMap)
    /\ HasPosition(pointMap, getProp(c, "from"))
    /\ HasPosition(pointMap, getProp(c, "to"))

\* C1: a raw connection is in the resolved output if and only if its inclusion
\* rule passes and both of its endpoint names resolve to a point with a
\* position; no resolved connection has an undefined source or target
\* position, and the positions are those of the indexed points.
C1_ResolvedIffRuleAndPositions ==
    /\ \A i \in 1..Len(processedConnections) :
           /\ Len(processedConnections[i]._sourcePos) > 0
           /\ Len(processedConnections[i]._targetPos) > 0
    /\ Resolved =>
           /\ {processedConnections[i].raw : i \in 1..Len(processedConnections)} =
                  {c \in Range(connectionsJson.elements) : ShouldResolve(c, LoadedPointMap)}
           /\ \A i \in 1..Len(processedConnections) :
                  LET d == processedConnections[i]
                  IN  /\ d._sourcePos =
                             LoadedPointMap[getProp(d.raw, "from")].geometry.coordinates
                      /\ d._targetPos =
                             LoadedPointMap[getProp(d.raw, "to")].geometry.coordinates

\* One connection was kept, another was dropped by the rule of category TR
\* although both of its endpoints have a position.
C1_Witness ==
    /\ Resolved
    /\ Len(processedConnections) > 0
    /\ \E c \in Range(connectionsJson.elements) :
           /\ ~InclusionRulePasses(c, LoadedPointMap)
           /\ HasPosition(LoadedPointMap, getProp(c, "from"))
           /\ HasPosition(LoadedPointMap, getProp(c, "to"))

\* The unordered pair of endpoint positions of a connection or an aggregate.
UnorderedPair(d) == {d._sourcePos, d._targetPos}

AggregatesOf(pair) ==
    {k \in 1..Len(aggregatedConnections) : UnorderedPair(aggregatedConnections[k]) = pair}

ConnectionsOf(pair) ==
    {i \in 1..Len(processedConnections) : UnorderedPair(processedConnections[i]) = pair}

\* C4: two resolved connections that join the same two positions in opposite
\* directions have the same canonical key and are counted in one and the same
\* aggregate, whose count is at least 2.
C4_OppositeDirectionsShareAggregate ==
    Resolved =>
        \A i, j \in 1..Len(processedConnections) :
            LET a == processedConnections[i]
                b == processedConnections[j]
            IN  (i # j /\ a._sourcePos = b._targetPos /\ a._targetPos = b._sourcePos) =>
                    /\ aggregateKey(a) = aggregateKey(b)
                    /\ Cardinality(AggregatesOf(UnorderedPair(a))) = 1
                    /\ \A k \in AggregatesOf(UnorderedPair(a)) :
                           aggregatedConnections[k]._count >= 2

\* Two resolved connections join two different positions in opposite
\* directions.
C4_Witness ==
    /\ Resolved
    /\ \E i, j \in 1..Len(processedConnections) :
           /\ i # j
           /\ processedConnections[i]._sourcePos = processedConnections[j]._targetPos
           /\ processedConnections[i]._targetPos = processedConnections[j]._sourcePos
           /\ processedConnections[i]._sourcePos # processedConnections[i]._targetPos

RECURSIVE SumCounts(_)
SumCounts(aggs) == IF Len(aggs) = 0 THEN 0 ELSE Head(aggs)._count + SumCounts(Tail(aggs))

\* C5: there is exactly one aggregate for every unordered pair of positions
\* that occurs among the resolved connections and none for any other pair,
\* the count of an aggregate is the number of resolved connections with its
\* pair, and the counts add up to the number of resolved connections.
C5_OneAggregatePerPairExactCount ==
    Resolved =>
        /\ \A i \in 1..Len(processedConnections) :
               Cardinality(AggregatesOf(UnorderedPair(processedConnections[i]))) = 1
        /\ \A k \in 1..Len(aggregatedConnections) :
               /\ aggregatedConnections[k]._count >= 1
               /\ aggregatedConnections[k]._count =
                      Cardinality(ConnectionsOf(UnorderedPair(aggregatedConnections[k])))
        /\ SumCounts(aggregatedConnections) = Len(processedConnections)

\* Several resolved connections share one pair of positions while another
\* pair has an aggregate of its own, or two pairs have one connection each.
C5_Witness ==
    /\ Resolved
    /\ Len(processedConnections) >= 2
    /\ \/ Len(aggregatedConnections) >= 2
       \/ \E k \in 1..Len(aggregatedConnections) : aggregatedConnections[k]._count >= 2
    /\ \E i, j \in 1..Len(processedConnections) :
           /\ i < j
           /\ processedConnections[i]._sourcePos = processedConnections[j]._sourcePos
           /\ processedConnections[i]._targetPos = processedConnections[j]._targetPos

(***************************************************************************)
(* Properties of the visibility engine                                     *)
(***************************************************************************)
\* The controls are in place and the overlay shows the layers.
Ready == pc = "ready"

\* One of the two endpoint positions of d lies within HUB_EPS of (lng, lat).
TouchesHub(d, lng, lat) ==
    \E p \in {d._sourcePos, d._targetPos} :
        Abs(p[1] - lng) <= HUB_EPS /\ Abs(p[2] - lat) <= HUB_EPS

\* The rule for a resolved connection d in the filter state fs, stated on the
\* raw record and the two points it joins.
ConnectionShouldShow(d, fs) ==
    /\ getConnType(d.raw) \in Range(fs.activeTypes)
    /\ ~fs.hideHubConnections \/ ~TouchesHub(d, HUB_LNG, HUB_LAT)
    /\ ~fs.hideHub2Connections \/ ~TouchesHub(d, HUB2_LNG, HUB2_LAT)
    /\ getPinType(d.from) \in Range(fs.activePointTypes)
    /\ getPinType(d.to) \in Range(fs.activePointTypes)
    /\ \/ Range(fs.activeIerTypes) = {}
       \/ Range(getIERArray(d.raw)) \cap Range(fs.activeIerTypes) # {}

\* The layers that render single connections.
ConnectionLayers == {layers.connectionsLayer, layers.individualConnectionTextLayer}

\* C2: a connection is visible if and only if its category is active, hub-1
\* suppression is off or it does not touch hub 1, hub-2 suppression is off or
\* it does not touch hub 2, the groups of its source and of its target are
\* active, and the active-tag set is empty or holds one of its tags.  This
\* is the value of the accessor in the current filter state and the value
\* every rendering layer carries.
C2_ConnectionVisibleIff ==
    Ready =>
        /\ \A i \in 1..Len(processedConnections) :
               (getConnectionFilterValue(processedConnections[i], FilterState) = 1)
                   <=> ConnectionShouldShow(processedConnections[i], FilterState)
        /\ \A layer \in ConnectionLayers : \A i \in 1..Len(layer.data) :
               /\ layer.filterValue[i] \in {0, 1}
               /\ (layer.filterValue[i] = 1) <=> ConnectionShouldShow(layer.data[i], FilterState)

\* With hub-1 suppression on and a tag active, one connection is shown and
\* another, whose category is active, is not.
C2_Witness ==
    /\ Ready
    /\ hideHubConnections
    /\ activeIerTypes # <<>>
    /\ \E i, j \in 1..Len(layers.connectionsLayer.data) :
           /\ layers.connectionsLayer.filterValue[i] = 1
           /\ layers.connectionsLayer.filterValue[j] = 0
           /\ layers.connectionsLayer.data[j]._connType \in Range(activeTypes)

\* The second filter state enables what the first enables, and possibly more;
\* the hub flags are the same.
EnablesMore(a, b) ==
    /\ Range(a.activeTypes) \subseteq Range(b.activeTypes)
    /\ Range(a.activePointTypes) \subseteq Range(b.activePointTypes)
    /\ Range(a.activeIerTypes) \subseteq Range(b.activeIerTypes)
    /\ a.hideHubConnections = b.hideHubConnections
    /\ a.hideHub2Connections = b.hideHub2Connections

StaysVisible(a, b) ==
    \A i \in 1..Len(processedConnections) :
        getConnectionFilterValue(processedConnections[i], a) = 1 =>
            getConnectionFilterValue(processedConnections[i], b) = 1

\* C3 as stated: every step of the controls that only enables categories,
\* groups or tags keeps every visible connection visible.
C3_MonotonicInEverySet ==
    [][(Ready /\ pc' = "ready" /\ EnablesMore(FilterState, FilterState'))
           => StaysVisible(FilterState, FilterState')]_vars

\* C3: every step of the controls that only enables categories or groups, or
\* tags while a tag is already active, keeps every visible connection
\* visible.  (Enabling the first tag turns tag filtering on and hides the
\* connections without that tag.)
C3_MonotonicUnlessFirstTag ==
    [][(/\ Ready /\ pc' = "ready"
        /\ EnablesMore(FilterState, FilterState')
        /\ \/ Range(activeIerTypes) = Range(activeIerTypes')
           \/ activeIerTypes # <<>>)
           => StaysVisible(FilterState, FilterState')]_vars

\* Every category, group and tag has been enabled and a connection that
\* carries the tag enabled first is shown.
C3_Witness ==
    /\ Ready
    /\ Len(activeTypes) = Len(connItems)
    /\ Len(activePointTypes) = Len(pinItems)
    /\ Len(activeIerTypes) = Len(ierItems)
    /\ \E i \in 1..Len(processedConnections) :
           /\ "NRP" \in Range(processedConnections[i]._ierTypes)
           /\ getConnectionFilterValue(processedConnections[i], FilterState) = 1

\* The rule for an aggregate d in the filter state fs, on the aggregate's own
\* category list, hub flags, endpoint groups and tag list.
AggregateShouldShow(d, fs) ==
    /\ Range(d._connTypes) \cap Range(fs.activeTypes) # {}
    /\ ~fs.hideHubConnections \/ ~d._isHub1
    /\ ~fs.hideHub2Connections \/ ~d._isHub2
    /\ d._sourcePinType \in Range(fs.activePointTypes)
    /\ d._targetPinType \in Range(fs.activePointTypes)
    /\ \/ Range(fs.activeIerTypes) = {}
       \/ Range(d._ierTypes) \cap Range(fs.activeIerTypes) # {}

\* The layers that render aggregates.
AggregateLayers == {layers.aggregatedConnectionsLayer, layers.aggregatedConnectionTextLayer}

\* C6: an aggregate is visible if and only if one of its categories is active
\* and the hub-1, hub-2, source-group, target-group and tag conditions hold
\* for its own hub flags, endpoint groups and tag list; both accessors for
\* aggregates (lines and labels) decide so.
C6_AggregateVisibleIff ==
    Ready =>
        /\ \A k \in 1..Len(aggregatedConnections) :
               LET d == aggregatedConnections[k]
               IN  /\ (aggregatedFilterValue(d, FilterState) = 1)
                          <=> AggregateShouldShow(d, FilterState)
                   /\ (aggregatedTextFilterValue(d, FilterState) = 1)
                          <=> AggregateShouldShow(d, FilterState)
        /\ \A layer \in AggregateLayers : \A k \in 1..Len(layer.data) :
               (layer.filterValue[k] = 1) <=> AggregateShouldShow(layer.data[k], FilterState)

\* The aggregated view shows an aggregate of two categories of which one is
\* active and the other is not.
C6_Witness ==
    /\ Ready
    /\ showAggregatedConnections
    /\ \E k \in 1..Len(layers.aggregatedConnectionsLayer.data) :
           LET d == layers.aggregatedConnectionsLayer.data[k]
           IN  /\ layers.aggregatedConnectionsLayer.filterValue[k] = 1
               /\ Range(d._connTypes) \ Range(activeTypes) # {}
               /\ Range(d._connTypes) \cap Range(activeTypes) # {}

\* C7: while no category is active no connection is visible, whatever the
\* other dimensions of the filter state are.
C7_NoCategoryNoConnection ==
    (Ready /\ activeTypes = <<>>) =>
        /\ \A i \in 1..Len(processedConnections) :
               getConnectionFilterValue(processedConnections[i], FilterState) = 0
        /\ \A layer \in ConnectionLayers : \A i \in 1..Len(layer.data) :
               layer.filterValue[i] = 0

\* No category is active; every group and a tag are, the labels are on, and a
\* rendered connection meets every condition but the one on its category.
C7_Witness ==
    /\ Ready
    /\ activeTypes = <<>>
    /\ Len(activePointTypes) = Len(pinItems)
    /\ activeIerTypes # <<>>
    /\ showConnectionLabels
    /\ \E i \in 1..Len(layers.individualConnectionTextLayer.data) :
           ConnectionShouldShow(layers.individualConnectionTextLayer.data[i],
                                [FilterState EXCEPT !.activeTypes = connItems])

\* Two filter states agree in every dimension (the active sets as sets).
SameDimensions(a, b) ==
    /\ Range(a.activeTypes) = Range(b.activeTypes)
    /\ Range(a.activePointTypes) = Range(b.activePointTypes)
    /\ Range(a.activeIerTypes) = Range(b.activeIerTypes)
    /\ a.hideHubConnections = b.hideHubConnections
    /\ a.hideHub2Connections = b.hideHub2Connections
    /\ a.showAggregatedConnections = b.showAggregatedConnections
    /\ a.showConnectionLabels = b.showConnectionLabels
    /\ a.showPinLabels = b.showPinLabels

\* Reorderings of an insertion order; the two generate every permutation.
SwapFirstTwo(s) == IF Len(s) < 2 THEN s ELSE <<s[2], s[1]>> \o SubSeq(s, 3, Len(s))
Rotate(s) == IF Len(s) = 0 THEN s ELSE Tail(s) \o <<Head(s)>>

Reorderings(fs) ==
    {[fs EXCEPT !.activeTypes = SwapFirstTwo(@)], [fs EXCEPT !.activeTypes = Rotate(@)],
     [fs EXCEPT !.activePointTypes = SwapFirstTwo(@)],
     [fs EXCEPT !.activePointTypes = Rotate(@)],
     [fs EXCEPT !.activeIerTypes = SwapFirstTwo(@)],
     [fs EXCEPT !.activeIerTypes = Rotate(@)]}

\* C8: the key is a function of the filter state: every layer of one build
\* carries the same key, the key is the same for every insertion order of the
\* active sets, and a step of the controls leaves the key as it is exactly
\* when it leaves every dimension (active categories, groups and tags, the
\* two hub flags, the aggregated-view flag and the two label flags) as it is.
C8_KeyInjectiveOrderFree ==
    /\ [](Ready =>
            /\ \A id \in DOMAIN layers : layers[id].updateTrigger = filterKey(FilterState)
            /\ \A alt \in Reorderings(FilterState) : filterKey(alt) = filterKey(FilterState))
    /\ [][(Ready /\ pc' = "ready") =>
            ((layers'.pinsLayer.updateTrigger = layers.pinsLayer.updateTrigger)
                <=> SameDimensions(FilterState, FilterState'))]_vars

\* The categories are all active, in an order that is not the sorted one and
\* not the one of the controls, and flags of every kind are set.
C8_Witness ==
    /\ Ready
    /\ Len(activeTypes) = Len(connItems)
    /\ activeTypes # connItems
    /\ activePointTypes # <<>>
    /\ hideHub2Connections /\ showAggregatedConnections /\ showPinLabels

\* Every visibility decision the filter state fs takes on the loaded records.
Decisions(fs) ==
    [connections |-> [i \in 1..Len(processedConnections) |->
                         getConnectionFilterValue(processedConnections[i], fs)],
     aggregates |-> [k \in 1..Len(aggregatedConnections) |->
                         aggregatedFilterValue(aggregatedConnections[k], fs)],
     aggregateLabels |-> [k \in 1..Len(aggregatedConnections) |->
                         aggregatedTextFilterValue(aggregatedConnections[k], fs)],
     markers |-> [g \in 1..Len(overlappingPins) |-> pinsFilterValue(overlappingPins[g], fs)],
     labels |-> [i \in 1..Len(processedPins) |-> pinTextFilterValue(processedPins[i], fs)]]

\* C9 as stated: a step of the controls that changes no visibility decision
\* leaves the key as it is.
C9_SameDecisionsSameKey ==
    [][(Ready /\ pc' = "ready" /\ Decisions(FilterState) = Decisions(FilterState'))
           => filterKey(FilterState') = filterKey(FilterState)]_vars

\* C9: two filter states with the same key take the same visibility
\* decisions; a step of the controls that changes a visibility decision
\* changes the key.
C9_ChangedDecisionChangesKey ==
    [][(Ready /\ pc' = "ready" /\ Decisions(FilterState) # Decisions(FilterState'))
           => filterKey(FilterState') # filterKey(FilterState)]_vars

\* Hub-2 suppression is on and hides a connection that meets every other
\* condition: switching the suppression changed a decision.
C9_Witness ==
    /\ Ready
    /\ hideHub2Connections
    /\ \E i \in 1..Len(processedConnections) :
           /\ getConnectionFilterValue(processedConnections[i], FilterState) = 0
           /\ getConnectionFilterValue(processedConnections[i],
                  [FilterState EXCEPT !.hideHub2Connections = FALSE]) = 1

\* The group of the point p is active.
OwnGroupActive(p) == getPinType(p) \in Range(activePointTypes)

\* C10 as stated: the marker that renders a point and the label of the point
\* are visible if and only if the point's own group is active.
C10_MarkerAndLabelIffOwnGroup ==
    Ready =>
        \A g \in 1..Len(overlappingPins) : \A m \in 1..Len(overlappingPins[g].originalPins) :
            LET p == overlappingPins[g].originalPins[m]
            IN  /\ (layers.pinsLayer.filterValue[g] = 1) <=> OwnGroupActive(p)
                /\ (pinTextFilterValue(p, FilterState) = 1) <=> OwnGroupActive(p)

\* C10: the label of a point is visible if and only if the point's own group
\* is active; the marker of a co-located group is visible if and only if the
\* group of at least one of its members is active, which for a point alone
\* at its position is the point's own group.
C10_LabelOwnGroupMarkerAnyMember ==
    Ready =>
        /\ \A g \in 1..Len(overlappingPins) :
               /\ (layers.pinsLayer.filterValue[g] = 1) <=>
                      \E m \in 1..Len(overlappingPins[g].originalPins) :
                          OwnGroupActive(overlappingPins[g].originalPins[m])
               /\ Len(overlappingPins[g].originalPins) = 1 =>
                      ((layers.pinsLayer.filterValue[g] = 1) <=>
                           OwnGroupActive(overlappingPins[g].originalPins[1]))
        /\ \A i \in 1..Len(processedPins) :
               (pinTextFilterValue(processedPins[i], FilterState) = 1)
                   <=> OwnGroupActive(processedPins[i])
        /\ \A i \in 1..Len(layers.pinTextLayer.data) :
               (layers.pinTextLayer.filterValue[i] = 1)
                   <=> OwnGroupActive(layers.pinTextLayer.data[i])

\* The labels are on, and a marker of several points is shown although the
\* group of one of its members is not active.
C10_Witness ==
    /\ Ready
    /\ showPinLabels
    /\ \E g \in 1..Len(overlappingPins) :
           /\ Len(overlappingPins[g].originalPins) > 1
           /\ layers.pinsLayer.filterValue[g] = 1
           /\ \E m \in 1..Len(overlappingPins[g].originalPins) :
                  ~OwnGroupActive(overlappingPins[g].originalPins[m])

(***************************************************************************)
(* Properties of the session                                               *)
(***************************************************************************)
\* The filter state with which a session starts.
AllOff(fs) ==
    /\ fs.activeTypes = <<>> /\ fs.activePointTypes = <<>> /\ fs.activeIerTypes = <<>>
    /\ ~fs.hideHubConnections /\ ~fs.hideHub2Connections
    /\ ~fs.showAggregatedConnections
    /\ ~fs.showConnectionLabels /\ ~fs.showPinLabels

\* No datum of any layer passes its filter.
NothingShown(built) ==
    \A id \in DOMAIN built : \A i \in 1..Len(built[id].filterValue) :
        built[id].filterValue[i] = 0

NoDecisionShows(fs) ==
    LET decisions == Decisions(fs)
    IN  \A kind \in DOMAIN decisions : \A i \in 1..Len(decisions[kind]) :
            decisions[kind][i] = 0

\* C11: when initMap has finished, the three active sets are empty and the
\* hub, aggregated-view and label flags are off, and no connection, aggregate
\* or point is visible, in the layers handed to the overlay and for the
\* accessors alike.
C11_SessionStartsAllOff ==
    [][(pc = "preprocessed" /\ pc' = "ready") =>
           /\ AllOff(FilterState')
           /\ NothingShown(layers')
           /\ NoDecisionShows(FilterState')]_vars

\* A session has started on connections, aggregates and points, and nothing
\* has been enabled.
C11_Witness ==
    /\ Ready
    /\ AllOff(FilterState)
    /\ Len(layers.connectionsLayer.data) > 0
    /\ Len(layers.pinsLayer.data) > 0
    /\ Len(aggregatedConnections) > 0

\* The values the controls and the overlay have before initMap gets to them.
Untouched == /\ layers = NoLayers
             /\ checked = NoneChecked
             /\ AllOff(FilterState)

\* C12: the preprocessing pass runs only when both responses are there, and
\* the layers, the controls and the filter state are first touched when the
\* pass has finished: a step that assigns the processed data starts with both
\* responses, and a step that builds layers, sets a checkbox or changes the
\* filter state starts after the pass and ends in a running session.
C12_PreprocessAfterFetchesBeforeControls ==
    /\ [](pc # "loading" => (connectionsJson # NotFetched /\ pointsJson # NotFetched))
    /\ [](pc # "ready" => Untouched)
    /\ [][(processedVars' # processedVars) =>
              (connectionsJson # NotFetched /\ pointsJson # NotFetched)]_vars
    /\ [][(layers' # layers \/ checked' # checked \/ FilterState' # FilterState) =>
              (pc \in {"preprocessed", "ready"} /\ pc' = "ready")]_vars

\* The pass has produced connections and points, the layers are built from
\* them, and a control has been used.
C12_Witness ==
    /\ Ready
    /\ Len(processedConnections) > 0
    /\ Len(layers.pinsLayer.data) > 0
    /\ checked.conn # {}
    /\ hideHubConnections

\* C13: with both documents lists of records, of which some record is
\* malformed (a point without geometry, a connection whose target is such a
\* point), the preprocessing pass does not abort, and every point that has a
\* geometry is among the processed points.
C13_MalformedRecordNeverAborts ==
    (connectionsJson.isArray /\ pointsJson.isArray /\ pc # "loading") =>
        /\ pc # "failed"
        /\ \A p \in Range(pointsJson.elements) :
               p.geometry.present =>
                   \E i \in 1..Len(processedPins) :
                       getPointName(processedPins[i]) = getPointName(p)
                       /\ processedPins[i].geometry = p.geometry

\* The raw connections whose two endpoint names resolve to a point with a
\* position.
BothEndpointsResolve ==
    {c \in Range(connectionsJson.elements) :
         /\ HasPosition(LoadedPointMap, getProp(c, "from"))
         /\ HasPosition(LoadedPointMap, getProp(c, "to"))}

Retained(c) == \E i \in 1..Len(processedConnections) : processedConnections[i].raw = c

TargetLng(c) == LoadedPointMap[getProp(c, "to")].geometry.coordinates[1]

MISSISSIPPI == 0 - 90 * UnitsPerDegree

\* C14: among the connections whose both endpoints resolve, a connection of
\* category TR that leaves "FOB1" is retained exactly when its target lies
\* strictly west of 90 degrees west, one that leaves "Ohio Pin" exactly when
\* its target lies strictly east of it, and every other connection is
\* retained.
C14_RetainedByOriginAndLongitude ==
    Resolved =>
        \A c \in BothEndpointsResolve :
            CASE getConnType(c) = "TR" /\ getProp(c, "from") = "FOB1" ->
                     Retained(c) <=> TargetLng(c) < MISSISSIPPI
              [] getConnType(c) = "TR" /\ getProp(c, "from") = "Ohio Pin" ->
                     Retained(c) <=> TargetLng(c) > MISSISSIPPI
              [] OTHER -> Retained(c)

\* A connection of category TR from "FOB1" to a target exactly on 90 degrees
\* west was dropped, and another one of the same origin was retained.
C14_Witness ==
    /\ Resolved
    /\ \E c \in BothEndpointsResolve :
           /\ getConnType(c) = "TR" /\ getProp(c, "from") = "FOB1"
           /\ TargetLng(c) = MISSISSIPPI /\ ~Retained(c)
    /\ \E c \in BothEndpointsResolve :
           /\ getConnType(c) = "TR" /\ getProp(c, "from") = "FOB1"
           /\ Retained(c)

(***************************************************************************)
(* Properties of the two document shapes and of the point index            *)
(***************************************************************************)
\* The records of a document of either shape.
RecordsOf(json) == IF json.isArray THEN json.elements ELSE json.features

\* The processed points as preprocessData computes them from a flat list.
PinsOfRecords(points) == [i \in 1..Len(points) |-> withPinType(points[i])]

\* C15: whichever of the two shapes each document has, preprocessing raises
\* no exception that the same records in a flat list would not raise, and
\* its results are those computed from the same records in flat lists.
C15_BothShapesSameResult ==
    LET conns == RecordsOf(connectionsJson)
        points == RecordsOf(pointsJson)
        pointMap == buildPointMap(points)
    IN  /\ pc = "failed" =>
               \/ resolveThrows(FlatList(conns), pointMap)
               \/ groupingThrows(PinsOfRecords(points))
        /\ Resolved =>
               /\ processedConnections = resolve(conns, pointMap)
               /\ overlappingPins = groupByLocation(PinsOfRecords(points))
               /\ aggregatedConnections = aggregate(resolve(conns, pointMap))
               /\ processedPins = flatMapOriginalPins(overlappingPins)

\* The names the fetched points carry.
PointNames ==
    {getPointName(p) : p \in Range(allPointsOf(pointsJson))} \ {""}

\* The last of the fetched points that carries the name.
LastNamed(name) ==
    LET points == allPointsOf(pointsJson)
        last == CHOOSE i \in 1..Len(points) :
                    /\ getPointName(points[i]) = name
                    /\ \A j \in (i + 1)..Len(points) : getPointName(points[j]) # name
    IN  points[last]

\* What a name must resolve to.
IndexedPoint(name) == IF name = "HUB2" THEN HUB2Feature ELSE LastNamed(name)

\* C18: the point index has one entry per distinct non-empty name, that of
\* the last point carrying the name; "HUB2" resolves to the synthetic point
\* at the coordinates of hub 2 whatever the points are; and a connection that
\* refers to "HUB2" is resolved like any other, with the position of the
\* synthetic point.
C18_IndexLastWriteWinsHub2Synthetic ==
    /\ DOMAIN LoadedPointMap = PointNames \cup {"HUB2"}
    /\ \A name \in DOMAIN LoadedPointMap : LoadedPointMap[name] = IndexedPoint(name)
    /\ LoadedPointMap["HUB2"].geometry = Geometry("Point", <<HUB2_LNG, HUB2_LAT>>)
    /\ Resolved =>
           /\ \A i \in 1..Len(processedConnections) :
                  LET d == processedConnections[i]
                  IN  /\ d.from = IndexedPoint(getProp(d.raw, "from"))
                      /\ d.to = IndexedPoint(getProp(d.raw, "to"))
                      /\ d._sourcePos = d.from.geometry.coordinates
                      /\ d._targetPos = d.to.geometry.coordinates
           /\ \A c \in Range(connectionsJson.elements) :
                  LET from == getProp(c, "from")
                      to == getProp(c, "to")
                  IN  ({from, to} \subseteq PointNames \cup {"HUB2"}
                           /\ InclusionRulePasses(c, LoadedPointMap))
                          => Retained(c)

\* Two points of one name at different places were fetched, and a
\* connection from that name to "HUB2" was resolved with the position of the
\* synthetic point.
C18_Witness ==
    /\ Resolved
    /\ \E i, j \in 1..Len(allPointsOf(pointsJson)) :
           LET points == allPointsOf(pointsJson)
           IN  /\ i < j
               /\ getPointName(points[i]) = "FOB1"
               /\ getPointName(points[j]) = "FOB1"
               /\ points[i].geometry # points[j].geometry
    /\ \E i \in 1..Len(processedConnections) :
           /\ getProp(processedConnections[i].raw, "to") = "HUB2"
           /\ getProp(processedConnections[i].raw, "from") = "FOB1"
           /\ processedConnections[i]._targetPos = <<HUB2_LNG, HUB2_LAT>>

(***************************************************************************)
(* Properties of the co-location grouping                                  *)
(***************************************************************************)
\* The fetched points with their group, in fetch order.
InputPins == PinsOfRecords(allPointsOf(pointsJson))

\* The fetched points that lie exactly at the coordinates.
PinsAt(coordinates) ==
    SelectSeq(InputPins, LAMBDA p : p.geometry.coordinates = coordinates)

WithoutOffset(pins) == [i \in 1..Len(pins) |-> [pins[i] EXCEPT !._labelOffset = NoOffset]]

\* The angle of the offset, in degrees, is num / den.
AngleIs(offset, num, den) == offset.angleNum * den = num * offset.angleDen

\* C16: the groups partition the points by exact equality of coordinates; in
\* a group of N > 1 points member i (from 0) gets an offset at the angle
\* -90 + i * (360 / N) + (360 / N) / 2 degrees, consecutive members 360 / N
\* degrees apart; the point of a group of one gets no offset.
C16_PartitionByCoordinatesEvenAngles ==
    Resolved =>
        /\ \A p \in Range(InputPins) :
               \E g \in 1..Len(overlappingPins) :
                   overlappingPins[g].firstPin.geometry.coordinates = p.geometry.coordinates
        /\ \A g, h \in 1..Len(overlappingPins) :
               g # h => overlappingPins[g].firstPin.geometry.coordinates #
                            overlappingPins[h].firstPin.geometry.coordinates
        /\ \A g \in 1..Len(overlappingPins) :
               LET group == overlappingPins[g]
                   N == group.count
                   members == group.originalPins
               IN  /\ N = Len(members)
                   /\ WithoutOffset(members) = PinsAt(group.firstPin.geometry.coordinates)
                   /\ N = 1 => ~members[1]._labelOffset.defined
                   /\ N > 1 =>
                          /\ \A i \in 0..(N - 1) :
                                 /\ members[i + 1]._labelOffset.defined
                                 /\ AngleIs(members[i + 1]._labelOffset,
                                            (0 - 180) * N + 720 * i + 360, 2 * N)
                          /\ \A i \in 1..(N - 1) :
                                 LET a == members[i]._labelOffset
                                     b == members[i + 1]._labelOffset
                                 IN  (b.angleNum * a.angleDen - a.angleNum * b.angleDen) * N
                                         = 360 * a.angleDen * b.angleDen
        /\ processedPins = flatMapOriginalPins(overlappingPins)
        /\ Len(processedPins) = Len(InputPins)

\* Two points of different names at one place form a group of two, with the
\* offsets at 0 and at 180 degrees.
C16_Witness ==
    /\ Resolved
    /\ \E g \in 1..Len(overlappingPins) :
           LET members == overlappingPins[g].originalPins
           IN  /\ overlappingPins[g].count = 2
               /\ getPointName(members[1]) # getPointName(members[2])
               /\ AngleIs(members[1]._labelOffset, 0, 1)
               /\ AngleIs(members[2]._labelOffset, 180, 1)

(***************************************************************************)
(* Properties of the fields of an aggregate                                *)
(***************************************************************************)
\* The resolved connections an aggregate stands for, in resolution order.
Members(agg) ==
    SelectSeq(processedConnections, LAMBDA d : UnorderedPair(d) = UnorderedPair(agg))

\* The values of a list without repetition, in order of first occurrence.
FirstOccurrences(list) ==
    LET firsts == {i \in 1..Len(list) : \A j \in 1..(i - 1) : list[j] # list[i]}
        nth(k) == CHOOSE i \in firsts : Cardinality({j \in firsts : j < i}) = k - 1
    IN  [k \in 1..Cardinality(firsts) |-> list[nth(k)]]

RECURSIVE Concat(_)
Concat(lists) == IF Len(lists) = 0 THEN <<>> ELSE Head(lists) \o Concat(Tail(lists))

\* C17: the category list of an aggregate holds the categories of its members
\* once each in order of first occurrence, its tag list the union of the tags
\* of its members; its endpoint references, positions and groups are those of
\* its first member; each hub flag is the disjunction of that flag over the
\* members.
C17_AggregateFieldsFromMembers ==
    \A k \in 1..Len(aggregatedConnections) :
        LET agg == aggregatedConnections[k]
            members == Members(agg)
        IN  /\ Len(members) > 0
            /\ agg._connTypes =
                   FirstOccurrences([i \in 1..Len(members) |-> members[i]._connType])
            /\ agg._ierTypes =
                   FirstOccurrences(Concat([i \in 1..Len(members) |-> members[i]._ierTypes]))
            /\ Range(agg._ierTypes) = UNION {Range(members[i]._ierTypes) : i \in 1..Len(members)}
            /\ agg.from = members[1].from
            /\ agg.to = members[1].to
            /\ agg._sourcePos = members[1]._sourcePos
            /\ agg._targetPos = members[1]._targetPos
            /\ agg._sourcePinType = members[1]._sourcePinType
            /\ agg._targetPinType = members[1]._targetPinType
            /\ agg._isHub1 <=> \E i \in 1..Len(members) : members[i]._isHub1
            /\ agg._isHub2 <=> \E i \in 1..Len(members) : members[i]._isHub2

\* An aggregate of two members of opposite directions, of two categories and
\* with overlapping tag lists: three tags, the endpoints of the first member,
\* the flag of hub 2 set.
C17_Witness ==
    \E k \in 1..Len(aggregatedConnections) :
        LET agg == aggregatedConnections[k]
            members == Members(agg)
        IN  /\ Len(members) = 2
            /\ members[1]._sourcePos = members[2]._targetPos
            /\ members[1]._sourcePos # members[1]._targetPos
            /\ Len(agg._connTypes) = 2
            /\ Len(members[1]._ierTypes) = 2
            /\ Len(members[2]._ierTypes) = 2
            /\ Len(agg._ierTypes) = 3
            /\ agg.from = members[1].from
            /\ agg.from # members[2].from
            /\ agg._isHub2

(***************************************************************************)
(* Properties of the refresh and of the controls                           *)
(***************************************************************************)
\* The layers the overlay holds were built from the current filter state.
LayersCurrent ==
    layers = buildLayers(processedConnections, processedPins, overlappingPins,
                         aggregatedConnections, FilterState)

\* C19: once the controls exist, in the state after every step that changes
\* the filter state (a checkbox, an All/None button, a hub toggle, the
\* aggregated toggle, a label toggle or a step of the demonstration) the
\* layers handed to the overlay are those built from the filter state as it
\* is after the step.
C19_LayersFollowFilterState == Ready => LayersCurrent

\* The demonstration is between its second and third step, the operator has
\* changed a flag and a tag meanwhile, and the layers show something.
C19_Witness ==
    /\ Ready
    /\ demo = "step3"
    /\ hideHubConnections
    /\ Len(activeIerTypes) > 0
    /\ showPinLabels
    /\ LayersCurrent
    /\ \E i \in 1..Len(layers.pinsLayer.filterValue) : layers.pinsLayer.filterValue[i] = 1

\* The dimensions of a filter state; an active set counts as a set.
Dimensions(fs) ==
    [categories |-> Range(fs.activeTypes),
     groups |-> Range(fs.activePointTypes),
     tags |-> Range(fs.activeIerTypes),
     hub1 |-> fs.hideHubConnections,
     hub2 |-> fs.hideHub2Connections,
     aggregated |-> fs.showAggregatedConnections,
     connectionLabels |-> fs.showConnectionLabels,
     pointLabels |-> fs.showPinLabels]

\* The dimensions in which two filter states differ.
Changed(before, after) ==
    {d \in DOMAIN Dimensions(before) : Dimensions(before)[d] # Dimensions(after)[d]}

\* C20: a step of a filter control changes exactly one dimension of the
\* filter state, its own: a category checkbox and the category All/None
\* button the active categories, a group checkbox and the group All/None
\* button the active groups, a tag checkbox and the tag All/None button the
\* active tags, each of the five toggles its own flag.  Every combination is
\* reachable: once the controls exist, the assignments of a handler can
\* always run (the refresh that follows them is a total function of their
\* result), and they flip any one flag, or the membership of any one key of
\* any one set, changing nothing else.
C20_OneDimensionPerControl ==
    /\ [][/\ (AllConnClick \/ \E key \in Range(connItems) : ConnCbChange(key))
              => Changed(FilterState, FilterState') = {"categories"}
          /\ (AllPinsClick \/ \E key \in Range(pinItems) : PinCbChange(key))
              => Changed(FilterState, FilterState') = {"groups"}
          /\ (AllIerClick \/ \E key \in Range(ierItems) : IerCbChange(key))
              => Changed(FilterState, FilterState') = {"tags"}
          /\ Hub1Change => Changed(FilterState, FilterState') = {"hub1"}
          /\ Hub2Change => Changed(FilterState, FilterState') = {"hub2"}
          /\ AggregatedChange => Changed(FilterState, FilterState') = {"aggregated"}
          /\ ConnLabelClick => Changed(FilterState, FilterState') = {"connectionLabels"}
          /\ PinLabelClick => Changed(FilterState, FilterState') = {"pointLabels"}]_vars
    /\ [](Ready =>
             /\ \A key \in Range(connItems) :
                    ENABLED (ConnCbAssignments(key)
                             /\ Range(activeTypes') = Toggle(Range(activeTypes), key))
             /\ \A key \in Range(pinItems) :
                    ENABLED (PinCbAssignments(key)
                             /\ Range(activePointTypes') = Toggle(Range(activePointTypes), key))
             /\ \A key \in Range(ierItems) :
                    ENABLED (IerCbAssignments(key)
                             /\ Range(activeIerTypes') = Toggle(Range(activeIerTypes), key))
             /\ ENABLED (Hub1Assignments /\ hideHubConnections' = ~hideHubConnections)
             /\ ENABLED (Hub2Assignments /\ hideHub2Connections' = ~hideHub2Connections)
             /\ ENABLED (AggregatedAssignments
                         /\ showAggregatedConnections' = ~showAggregatedConnections)
             /\ ENABLED (ConnLabelAssignments /\ showConnectionLabels' = ~showConnectionLabels)
             /\ ENABLED (PinLabelAssignments /\ showPinLabels' = ~showPinLabels))

\* Every dimension has been changed: every category, one group and one tag
\* are active and the five flags are set.
C20_Witness ==
    /\ Ready
    /\ Range(activeTypes) = Range(connItems)
    /\ Range(activePointTypes) = {"RED_GROUP"}
    /\ Range(activeIerTypes) = {"NRP"}
    /\ hideHubConnections /\ hideHub2Connections /\ showAggregatedConnections
    /\ showConnectionLabels /\ showPinLabels

(***************************************************************************)
(* Properties of the two views                                             *)
(***************************************************************************)
\* C21: once the overlay exists, the per-edge arc layer holds the resolved
\* connections exactly when the aggregated view is off (nothing otherwise)
\* and the aggregated arc layer the aggregates exactly when it is on; the
\* per-edge label layer holds data only with connection labels on and the
\* aggregated view off, the aggregate label layer only with both on; so at
\* most one arc layer and at most one label layer has data.
C21_ViewsMutuallyExclusive ==
    Ready =>
        /\ layers.connectionsLayer.data =
               IF showAggregatedConnections THEN <<>> ELSE processedConnections
        /\ layers.aggregatedConnectionsLayer.data =
               IF showAggregatedConnections THEN aggregatedConnections ELSE <<>>
        /\ layers.individualConnectionTextLayer.data =
               IF showConnectionLabels /\ ~showAggregatedConnections
               THEN processedConnections ELSE <<>>
        /\ layers.aggregatedConnectionTextLayer.data =
               IF showConnectionLabels /\ showAggregatedConnections
               THEN aggregatedConnections ELSE <<>>
        /\ Len(layers.connectionsLayer.data) = 0
               \/ Len(layers.aggregatedConnectionsLayer.data) = 0
        /\ Len(layers.individualConnectionTextLayer.data) = 0
               \/ Len(layers.aggregatedConnectionTextLayer.data) = 0

\* The aggregated view with labels: aggregates and their labels are
\* supplied, the resolved connections are there but are not.
C21_Witness ==
    /\ Ready
    /\ showAggregatedConnections /\ showConnectionLabels
    /\ Len(processedConnections) > 0
    /\ Len(layers.aggregatedConnectionsLayer.data) > 0
    /\ Len(layers.aggregatedConnectionTextLayer.data) > 0
    /\ Len(layers.connectionsLayer.data) = 0
    /\ Len(layers.individualConnectionTextLayer.data) = 0

(***************************************************************************)
(* Properties of the resolution as a map and filter                        *)
(***************************************************************************)
\* a is b with some elements left out: the elements of a occur in b in the
\* same order, each at its own place.
RECURSIVE IsSubSequence(_, _)
IsSubSequence(a, b) ==
    IF Len(a) = 0 THEN TRUE
    ELSE IF Len(b) = 0 THEN FALSE
    ELSE IF Head(a) = Head(b) THEN IsSubSequence(Tail(a), Tail(b))
    ELSE IsSubSequence(a, Tail(b))

RawOfResolved == [i \in 1..Len(processedConnections) |-> processedConnections[i].raw]

TypeField(c) ==
    IF c.direct.Connection_type # Undef THEN c.direct.Connection_type
    ELSE IF c.properties.Connection_type # Undef THEN c.properties.Connection_type
    ELSE IF c.direct.connection_type # Undef THEN c.direct.connection_type
    ELSE c.properties.connection_type

\* The string has no letter a..z and no white space at either end.
IsNormalized(str) ==
    LET cs == Chars(str)
    IN  /\ \A i \in 1..Len(cs) : ~(cs[i] >= 97 /\ cs[i] <= 122)
        /\ Len(cs) > 0 => (~IsSpace(cs[1]) /\ ~IsSpace(cs[Len(cs)]))

\* C23: the category of a resolved connection is read from the first place
\* that holds a type, trimmed and upper-cased; it is exactly "N" when that
\* gives "N_TYPE", the upper-cased value itself otherwise, and the empty
\* string when no place holds a type; classifying a record whose type is the
\* category again gives the category.
C23_CategoryNormalized ==
    Resolved =>
        /\ Len(processedConnections) = Len(connectionsJson.elements)
        /\ \A i \in 1..Len(processedConnections) :
               LET d == processedConnections[i]
                   field == TypeField(d.raw)
                   upper == IF field = Undef THEN "" ELSE toUpperCase(trim(field))
               IN  /\ d._connType = getConnType(d.raw)
                   /\ IsNormalized(d._connType)
                   /\ d._connType # "N_TYPE"
                   /\ field = Undef => d._connType = ""
                   /\ upper = "N_TYPE" => d._connType = "N"
                   /\ upper # "N_TYPE" => d._connType = upper
                   /\ getConnType(TypedConn(d._connType, Undef, Undef, Undef)) = d._connType
                   /\ getConnType(TypedConn(Undef, Undef, Undef, d._connType)) = d._connType

\* The legacy spelling, in mixed case with white space around it, was
\* classified as "N", and a record whose two spellings disagree as the
\* upper-case one of its nested properties.
C23_Witness ==
    /\ Resolved
    /\ \E i \in 1..Len(processedConnections) :
           /\ processedConnections[i].raw.direct.Connection_type = " N_Type "
           /\ processedConnections[i]._connType = "N"
    /\ \E i \in 1..Len(processedConnections) :
           /\ processedConnections[i].raw.direct.connection_type = "RT"
           /\ processedConnections[i]._connType = "SAT"

(***************************************************************************)
(* Properties of the session with the demonstration                        *)
(***************************************************************************)
\* A resolved connection whose category no control offers.
Unoffered(d) == d._connType \notin Range(connItems)

\* C24: in every state the active categories are among the nine keys the
\* controls offer, the active groups among the thirteen groups and the
\* active tags among the six tag keys; hence a connection whose category is
\* none of the nine keys, the empty category included, is shown in no state,
\* neither its arc nor its label.
C24_ActiveSetsWithinOfferedKeys ==
    /\ Range(activeTypes) \subseteq Range(connItems)
    /\ Range(activePointTypes) \subseteq Range(ALL_POINT_TYPES)
    /\ Range(activeIerTypes) \subseteq Range(ierItems)
    /\ Len(connItems) = 9 /\ Len(ALL_POINT_TYPES) = 13 /\ Len(ierItems) = 6
    /\ \A i \in 1..Len(processedConnections) :
           Unoffered(processedConnections[i]) =>
               getConnectionFilterValue(processedConnections[i], FilterState) = 0
    /\ \A i \in 1..Len(layers.connectionsLayer.data) :
           Unoffered(layers.connectionsLayer.data[i]) =>
               layers.connectionsLayer.filterValue[i] = 0
    /\ \A i \in 1..Len(layers.individualConnectionTextLayer.data) :
           Unoffered(layers.individualConnectionTextLayer.data[i]) =>
               layers.individualConnectionTextLayer.filterValue[i] = 0

\* In the middle of a demonstration the operator has pressed both
\* "All / None" buttons: every category and every group is active,
\* connections are shown, and the connection of an unoffered category and
\* the one without a category are among the data and hidden.
C24_Witness ==
    /\ Ready
    /\ demo = "step3"
    /\ Range(activeTypes) = Range(connItems)
    /\ Range(activePointTypes) = Range(ALL_POINT_TYPES)
    /\ ~showAggregatedConnections
    /\ \E i \in 1..Len(layers.connectionsLayer.data) :
           layers.connectionsLayer.filterValue[i] = 1
    /\ \E i \in 1..Len(layers.connectionsLayer.data) :
           /\ layers.connectionsLayer.data[i]._connType = "X"
           /\ layers.connectionsLayer.filterValue[i] = 0
    /\ \E i \in 1..Len(layers.connectionsLayer.data) :
           /\ layers.connectionsLayer.data[i]._connType = ""
           /\ layers.connectionsLayer.filterValue[i] = 0

(***************************************************************************)
(* Properties relating the per-edge view and the aggregated view           *)
(***************************************************************************)
AggregateVisible(agg) == aggregatedFilterValue(agg, FilterState) = 1

ConnectionVisible(d) == getConnectionFilterValue(d, FilterState) = 1

\* C25 as stated: a visible aggregate has a visible member.
C25_VisibleAggregateHasVisibleMember ==
    Ready =>
        \A k \in 1..Len(aggregatedConnections) :
            AggregateVisible(aggregatedConnections[k]) =>
                \E d \in Range(Members(aggregatedConnections[k])) : ConnectionVisible(d)

\* C25: a visible aggregate meets every condition through some member, not
\* necessarily the same one: the category of some member is active; no tag
\* is active or some member carries an active tag; the hub conditions hold
\* for every member; and the endpoint groups of its first member are active.
C25_VisibleAggregateConditionsByMembers ==
    Ready =>
        \A k \in 1..Len(aggregatedConnections) :
            LET agg == aggregatedConnections[k]
                members == Members(agg)
            IN  AggregateVisible(agg) =>
                    /\ \E d \in Range(members) : d._connType \in Range(activeTypes)
                    /\ \/ activeIerTypes = <<>>
                       \/ \E d \in Range(members) :
                              Range(d._ierTypes) \cap Range(activeIerTypes) # {}
                    /\ \A d \in Range(members) :
                           /\ ~hideHubConnections \/ ~d._isHub1
                           /\ ~hideHub2Connections \/ ~d._isHub2
                    /\ members[1]._sourcePinType \in Range(activePointTypes)
                    /\ members[1]._targetPinType \in Range(activePointTypes)

\* The aggregated view shows an aggregate of two members of which none
\* would be shown: the one of the active category lacks the active tag, the
\* one with the active tag is of an inactive category.
C25_Witness ==
    /\ Ready
    /\ showAggregatedConnections
    /\ \E k \in 1..Len(layers.aggregatedConnectionsLayer.data) :
           LET agg == layers.aggregatedConnectionsLayer.data[k]
           IN  /\ layers.aggregatedConnectionsLayer.filterValue[k] = 1
               /\ Len(Members(agg)) = 2
               /\ \A d \in Range(Members(agg)) : ~ConnectionVisible(d)

\* The aggregate that counts the resolved connection d.
AggregateOf(d) ==
    aggregatedConnections[CHOOSE k \in 1..Len(aggregatedConnections) :
                              UnorderedPair(aggregatedConnections[k]) = UnorderedPair(d)]

\* C26: a visible connection lies in a visible aggregate, also when points
\* of different groups share their coordinates.
C26_VisibleConnectionInVisibleAggregate ==
    Ready =>
        \A i \in 1..Len(processedConnections) :
            ConnectionVisible(processedConnections[i]) =>
                AggregateVisible(AggregateOf(processedConnections[i]))

\* C27: once the controls exist, each category, group and tag checkbox is
\* checked exactly when its key is in the corresponding active set, and the
\* checkboxes of the two hubs and of the aggregated view equal their flags.
C27_ControlsAgreeWithFilterState ==
    Ready =>
        /\ \A key \in Range(connItems) : key \in checked.conn <=> SetHas(activeTypes, key)
        /\ \A key \in Range(pinItems) : key \in checked.pin <=> SetHas(activePointTypes, key)
        /\ \A key \in Range(ierItems) : key \in checked.ier <=> SetHas(activeIerTypes, key)
        /\ checked.hub1 = hideHubConnections
        /\ checked.hub2 = hideHub2Connections
        /\ checked.agg = showAggregatedConnections

\* Between the second and the third step of a demonstration, after the
\* operator has ticked a category, a tag and a hub: the checkboxes show what
\* the demonstration and the operator have set.
C27_Witness ==
    /\ Ready
    /\ demo = "step3"
    /\ checked.conn = {"N", "RT"}
    /\ checked.pin = {"OKC_GROUP", "RED_GROUP"}
    /\ checked.ier = {"NRP"}
    /\ checked.hub1
    /\ Range(activeTypes) = {"N", "RT"}

(***************************************************************************)
(* Properties of the demonstration                                         *)
(***************************************************************************)
\* C28: the demonstration is single-flight under every interleaving with
\* operator actions.  Its button is disabled from the start of a run until
\* the third step has been applied; a run only starts while the button is
\* enabled; the steps of a run are applied in order (step 1 at the start,
\* step 2 after the first delay, step 3 after the second); and every started
\* run applies its third step and enables the button again.
C28_DemonstrationSingleFlight ==
    /\ [][/\ (~newButtonDisabled /\ demo' # "idle")
               => /\ demo' = "step2"
                  /\ activeTypes' = <<>>
                  /\ activePointTypes' = <<"OKC_GROUP">>
          /\ demo = "step2"
               => /\ demo' # "idle"
                  /\ demo' # demo
                       => /\ demo' = "step3"
                          /\ SetHas(activePointTypes', "RED_GROUP")
                          /\ SetHas(activeTypes', "RT")
          /\ demo = "step3"
               => /\ demo' # "step2"
                  /\ demo' # demo
                       => /\ demo' = "idle"
                          /\ SetHas(activePointTypes', "BLUE_GROUP")
                          /\ SetHas(activeTypes', "TR")]_vars
    /\ (demo = "step2") ~> (demo = "step3")
    /\ (demo = "step3") ~> ~newButtonDisabled

\* A demonstration is past its second step, and the operator has ticked a
\* category, a tag and a hub since it started.
C28_Witness ==
    /\ newButtonDisabled
    /\ demo = "step3"
    /\ Range(activeTypes) = {"N", "RT"}
    /\ Range(activePointTypes) = {"OKC_GROUP", "RED_GROUP"}
    /\ checked.hub1
    /\ Range(activeIerTypes) = {"NRP"}

HasEveryKey(set, items) == Range(items) \subseteq Range(set)

\* A press of "All / None" took the active set before to the set after.
PressedAll(before, after, items) ==
    /\ HasEveryKey(before, items) => after = <<>>
    /\ ~HasEveryKey(before, items) => Range(after) = Range(items)

\* C30: a press of "All / None" of the categories, of the groups or of the
\* tags empties the active set of its dimension if the set contains every
\* offered key, and otherwise makes it the set of all offered keys.  So one
\* press leaves the empty or the full set, a second press takes the full set
\* to the empty set and the empty set to the full set, and two presses take
\* the full set to the full set and every other set to the empty set.  The
\* press changes neither of the two other active sets nor any flag.
C30_AllNoneEmptiesFullElseFills ==
    [][/\ AllConnAssignments
            => /\ PressedAll(activeTypes, activeTypes', connItems)
               /\ PressedAll(activeTypes', IF HasEveryKey(activeTypes, connItems)
                                           THEN connItems ELSE <<>>, connItems)
               /\ activePointTypes' = activePointTypes
               /\ activeIerTypes' = activeIerTypes
       /\ AllPinsAssignments
            => /\ PressedAll(activePointTypes, activePointTypes', pinItems)
               /\ PressedAll(activePointTypes', IF HasEveryKey(activePointTypes, pinItems)
                                                THEN pinItems ELSE <<>>, pinItems)
               /\ activeTypes' = activeTypes
               /\ activeIerTypes' = activeIerTypes
       /\ AllIerAssignments
            => /\ PressedAll(activeIerTypes, activeIerTypes', ierItems)
               /\ PressedAll(activeIerTypes', IF HasEveryKey(activeIerTypes, ierItems)
                                              THEN ierItems ELSE <<>>, ierItems)
               /\ activeTypes' = activeTypes
               /\ activePointTypes' = activePointTypes
       /\ (AllConnAssignments \/ AllPinsAssignments \/ AllIerAssignments)
            => /\ hideHubConnections' = hideHubConnections
               /\ hideHub2Connections' = hideHub2Connections
               /\ showAggregatedConnections' = showAggregatedConnections
               /\ showConnectionLabels' = showConnectionLabels
               /\ showPinLabels' = showPinLabels]_vars

\* During a demonstration "All / None" has filled the categories and the
\* tags; the groups of the demonstration and a hub flag set by the operator
\* are as they were.
C30_Witness ==
    /\ Ready
    /\ demo = "step3"
    /\ Range(activeTypes) = Range(connItems)
    /\ Range(activeIerTypes) = Range(ierItems)
    /\ Range(activePointTypes) = {"OKC_GROUP", "RED_GROUP"}
    /\ hideHubConnections

====
